---- MODULE Spec2Model ----
(***************************************************************************)
(* A model of the document-structuring engine of the Legal Document        *)
(* Processor: pipeline/layout_parser.py (LayoutParser) and                 *)
(* pipeline/risk_assesment.py (RiskAssessor).                              *)
(*                                                                         *)
(* Texts are TLA+ strings.  The regular expressions of the source are      *)
(* written as syntax trees (Cat, Alt, Rep, Grp, ...) and run by one        *)
(* backtracking matcher, M, which follows Python's re semantics: leftmost  *)
(* match, alternatives in order, greedy and lazy repetition.               *)
(***************************************************************************)
EXTENDS Integers, Sequences, FiniteSets, TLC

VARIABLES
  pc,            \* position of the running call ("idle" before any call)
  nlp,           \* LayoutParser.nlp: TRUE when the spaCy model was loaded
  risk_model,    \* RiskAssessor.model/tokenizer: "none" | "loaded"
  distilbert,    \* behaviour of the loaded classifier: a confidence in percent, or "raise"
  raw_text,      \* parse_structure's raw_text
  sections,      \* parse_structure's sections
  sec_i,         \* index of the section the extraction loop is at
  all_clauses,   \* parse_structure's all_clauses
  result,        \* what the call returned: a record, or Raised
  fn_in,         \* input of a directly called helper
  fn_out,        \* output of a directly called helper
  hash_seed      \* the process's string hash seed, which orders a set of strings

vars == <<pc, nlp, risk_model, distilbert, raw_text, sections, sec_i, all_clauses,
          result, fn_in, fn_out, hash_seed>>

(***************************************************************************)
(* Characters and strings                                                  *)
(***************************************************************************)
Chars(str) == [i \in 1..Len(str) |-> SubSeq(str, i, i)] \o <<>>
Range(f) == {f[i] : i \in DOMAIN f}
UPPER == Chars("ABCDEFGHIJKLMNOPQRSTUVWXYZ")
LOWER == Chars("abcdefghijklmnopqrstuvwxyz")
UpperSet == Range(UPPER)
LowerSet == Range(LOWER)
LetterSet == UpperSet \cup LowerSet
DigitSet == Range(Chars("0123456789"))
\* \s of Python's re, over the characters the documents use
SpaceSet == {" ", "\n", "\t"}
\* \w of Python's re (ASCII part)
WordSet == LetterSet \cup DigitSet \cup {"_"}
LowerOf == [c \in UpperSet |-> LOWER[CHOOSE i \in DOMAIN UPPER : UPPER[i] = c]]
UpperOf == [c \in LowerSet |-> UPPER[CHOOSE i \in DOMAIN LOWER : LOWER[i] = c]]
ToLower(c) == IF c \in UpperSet THEN LowerOf[c] ELSE c
ToUpper(c) == IF c \in LowerSet THEN UpperOf[c] ELSE c
\* str.lower(), as a sequence of characters
LowerChars(str) == [i \in 1..Len(str) |-> ToLower(SubSeq(str, i, i))] \o <<>>
\* text[a:b] with 1-based inclusive bounds; "" when the slice is empty
Slice(str, a, b) == IF a > b THEN "" ELSE SubSeq(str, a, b)
Min(S) == CHOOSE m \in S : \A n \in S : m <= n
Max(S) == CHOOSE m \in S : \A n \in S : m >= n

\* str.strip(): the text without its leading and trailing whitespace
Strip(str) ==
  LET cs == Chars(str)
      ink == {i \in 1..Len(cs) : cs[i] \notin SpaceSet}
  IN IF ink = {} THEN "" ELSE SubSeq(str, Min(ink), Max(ink))

\* needle in hay (Python's substring test), on character sequences
Contains(hay, needle) ==
  \E i \in 1..(Len(hay) - Len(needle) + 1) :
     \A j \in 1..Len(needle) : hay[i + j - 1] = needle[j]

\* str.startswith
StartsWith(str, prefix) == Len(str) >= Len(prefix) /\ SubSeq(str, 1, Len(prefix)) = prefix

\* text.split(): the runs of characters that are not whitespace, in order
TextWords(text) ==
  LET cs == Chars(text)
      starts == {i \in DOMAIN cs : cs[i] \notin SpaceSet /\ (i = 1 \/ cs[i - 1] \in SpaceSet)}
      EndOf(i) == Min({j \in i..Len(cs) : j = Len(cs) \/ cs[j + 1] \in SpaceSet})
      Nth(n) == CHOOSE i \in starts : Cardinality({j \in starts : j < i}) = n - 1
  IN [n \in 1..Cardinality(starts) |-> SubSeq(text, Nth(n), EndOf(Nth(n)))]

RECURSIVE JoinWith(_, _)
\* sep.join(parts)
JoinWith(parts, sep) ==
  IF parts = <<>> THEN ""
  ELSE IF Len(parts) = 1 THEN parts[1]
  ELSE parts[1] \o sep \o JoinWith(Tail(parts), sep)

(***************************************************************************)
(* Regular expressions (Python's re)                                       *)
(***************************************************************************)
Inf == 0 - 1
C(cs) == [t |-> "c", neg |-> FALSE, cs |-> cs]
NC(cs) == [t |-> "c", neg |-> TRUE, cs |-> cs]
Dot == [t |-> "dot"]
Cat(a) == [t |-> "seq", a |-> a]
Alt(a) == [t |-> "alt", a |-> a]
Rep(r, lo, hi) == [t |-> "rep", r |-> r, lo |-> lo, hi |-> hi, lazy |-> FALSE]
RepLazy(r, lo, hi) == [t |-> "rep", r |-> r, lo |-> lo, hi |-> hi, lazy |-> TRUE]
Grp(n, r) == [t |-> "grp", n |-> n, r |-> r]
La(r) == [t |-> "la", r |-> r]
Bol == [t |-> "bol"]
Eol == [t |-> "eol"]
EndZ == [t |-> "endz"]
Wb == [t |-> "wb"]
Lit(str) == Cat([i \in 1..Len(str) |-> C({SubSeq(str, i, i)})] \o <<>>)
Star(r) == Rep(r, 0, Inf)
Plus(r) == Rep(r, 1, Inf)
Opt(r) == Rep(r, 0, 1)
S == C(SpaceSet)
D == C(DigitSet)
Flags(ic, ml, da) == [ic |-> ic, multiline |-> ml, dotall |-> da]
Pattern(re, fl, groups) == [re |-> re, fl |-> fl, groups |-> groups]

NoMatch == [ok |-> FALSE, start |-> 0, end |-> 0, caps |-> <<>>]

InClass(c, h, fl) ==
  LET in == IF fl.ic THEN (c \in h.cs \/ ToLower(c) \in h.cs \/ ToUpper(c) \in h.cs)
            ELSE c \in h.cs
  IN in # h.neg

CharOk(c, r, fl) == IF r.t = "dot" THEN (fl.dotall \/ c # "\n") ELSE InClass(c, r, fl)

IsWord(s, i) == i >= 1 /\ i <= Len(s) /\ s[i] \in WordSet

\* the number of characters from position i on that the single-character
\* node r matches, one after the other
RunLength(s, i, r, fl) ==
  (CHOOSE j \in i..(Len(s) + 1) :
     /\ j = Len(s) + 1 \/ ~CharOk(s[j], r, fl)
     /\ \A k \in i..(j - 1) : CharOk(s[k], r, fl)) - i

\* of the pairs <<count, match>> the successful one with the highest count
\* (greedy) or the lowest (lazy); NoMatch when none is successful
PickTry(tries, lazy) ==
  IF \A p \in tries : ~p[2].ok THEN NoMatch
  ELSE (CHOOSE p \in tries :
          /\ p[2].ok
          /\ \A q \in tries : q[2].ok => IF lazy THEN p[1] <= q[1] ELSE p[1] >= q[1])[2]

\* first if it is a match, else second
OrElse(first, second) == IF first.ok THEN first ELSE second

RECURSIVE M(_, _, _, _, _)
\* The match of the nodes of stack, in order, against s from position i:
\* the first one in Python's backtracking order.  caps[n] is group n's span
\* <<from, to>> with to exclusive.
M(s, fl, stack, i, caps) ==
  IF stack = <<>> THEN [ok |-> TRUE, start |-> 0, end |-> i, caps |-> caps]
  ELSE LET h == Head(stack)
           rest == Tail(stack)
       IN CASE h.t \in {"c", "dot"} ->
                 IF i <= Len(s) /\ CharOk(s[i], h, fl)
                 THEN M(s, fl, rest, i + 1, caps) ELSE NoMatch
            [] h.t = "seq" -> M(s, fl, h.a \o rest, i, caps)
            [] h.t = "alt" ->
                 IF h.a = <<>> THEN NoMatch
                 ELSE OrElse(M(s, fl, <<Head(h.a)>> \o rest, i, caps),
                             M(s, fl, <<[h EXCEPT !.a = Tail(h.a)]>> \o rest, i, caps))
            [] h.t = "rep" /\ h.r.t \in {"c", "dot"} ->
                 \* a repeated single character: the run of matching characters,
                 \* then the longest (greedy) or shortest (lazy) count in lo..hi
                 \* after which the rest matches
                 PickTry({<<k, M(s, fl, rest, i + k, caps)>> :
                            k \in h.lo..Min({RunLength(s, i, h.r, fl)}
                                              \cup (IF h.hi = Inf THEN {} ELSE {h.hi}))},
                         h.lazy)
            [] h.t = "rep" /\ h.r.t \notin {"c", "dot"} ->
                 IF h.lo > 0
                 THEN M(s, fl, <<h.r, [h EXCEPT !.lo = h.lo - 1,
                                                !.hi = IF h.hi = Inf THEN Inf ELSE h.hi - 1]>>
                                 \o rest, i, caps)
                 ELSE IF h.hi = 0 THEN M(s, fl, rest, i, caps)
                 ELSE IF h.lazy
                 THEN OrElse(M(s, fl, rest, i, caps),
                             M(s, fl, <<h.r, [h EXCEPT !.hi = IF h.hi = Inf THEN Inf ELSE h.hi - 1]>>
                                         \o rest, i, caps))
                 ELSE OrElse(M(s, fl, <<h.r, [h EXCEPT !.hi = IF h.hi = Inf THEN Inf ELSE h.hi - 1]>>
                                         \o rest, i, caps),
                             M(s, fl, rest, i, caps))
            [] h.t = "grp" ->
                 M(s, fl, <<h.r, [t |-> "cl", n |-> h.n, from |-> i]>> \o rest, i, caps)
            [] h.t = "cl" -> M(s, fl, rest, i, [caps EXCEPT ![h.n] = <<h.from, i>>])
            [] h.t = "la" -> IF M(s, fl, <<h.r>>, i, caps).ok
                             THEN M(s, fl, rest, i, caps) ELSE NoMatch
            [] h.t = "bol" -> IF i = 1 \/ (fl.multiline /\ s[i - 1] = "\n")
                              THEN M(s, fl, rest, i, caps) ELSE NoMatch
            [] h.t = "eol" -> IF \/ i = Len(s) + 1
                                 \/ (fl.multiline /\ s[i] = "\n")
                                 \/ (i = Len(s) /\ s[i] = "\n")
                              THEN M(s, fl, rest, i, caps) ELSE NoMatch
            [] h.t = "endz" -> IF i = Len(s) + 1 THEN M(s, fl, rest, i, caps) ELSE NoMatch
            [] h.t = "wb" -> IF IsWord(s, i - 1) # IsWord(s, i)
                             THEN M(s, fl, rest, i, caps) ELSE NoMatch

\* pattern.match(s, i): the match that starts at position i
MatchAt(s, p, i) ==
  [M(s, p.fl, <<p.re>>, i, [g \in 1..p.groups |-> <<0, 0>>]) EXCEPT !.start = i]

\* of the matches in tries the one that starts first; NoMatch when there is none
Leftmost(tries) ==
  IF \A m \in tries : ~m.ok THEN NoMatch
  ELSE CHOOSE m \in tries : m.ok /\ \A q \in tries : q.ok => m.start <= q.start

\* pattern.search(s, from): the leftmost match at or after from
Search(s, p, from) == Leftmost({MatchAt(s, p, k) : k \in from..(Len(s) + 1)})

RECURSIVE FindIter(_, _, _)
\* m, then the matches after it
FindMore(s, p, m) ==
  IF ~m.ok THEN <<>>
  ELSE <<m>> \o FindIter(s, p, IF m.end = m.start THEN m.end + 1 ELSE m.end)
\* pattern.finditer(s): the non-overlapping matches, left to right
FindIter(s, p, from) ==
  IF from > Len(s) + 1 THEN <<>> ELSE FindMore(s, p, Search(s, p, from))

\* the text of group g of match m in str ("" for a group that did not take part)
GroupText(str, m, g) == Slice(str, m.caps[g][1], m.caps[g][2] - 1)
\* match.group(0)
MatchText(str, m) == Slice(str, m.start, m.end - 1)

(***************************************************************************)
(* Values                                                                  *)
(***************************************************************************)
\* Python's None
None == "<None>"
\* an exception left the call
Raised == "<raised>"

(***************************************************************************)
(* RiskAssessor (pipeline/risk_assesment.py)                               *)
(***************************************************************************)
high_risk_keywords == <<"unlimited liability", "personal guarantee", "penalty", "liquidated damages">>
medium_risk_keywords == <<"indemnification", "limitation of liability", "attorney fees">>

\* negative_confidence thresholds, in percent
HighConfidence == 80
MediumConfidence == 60

\* any(keyword in text_lower for keyword in keywords)
AnyKeywordIn(keywords, text_lower) ==
  \E k \in DOMAIN keywords : Contains(text_lower, Chars(keywords[k]))

_assess_with_keywords_MediumFirst(text) ==
  LET text_lower == LowerChars(text)
  IN IF AnyKeywordIn(medium_risk_keywords, text_lower) THEN "medium"
     ELSE IF AnyKeywordIn(high_risk_keywords, text_lower) THEN "high"
     ELSE "low"

_assess_with_keywords(text) ==
  LET text_lower == LowerChars(text)
  IN IF AnyKeywordIn(high_risk_keywords, text_lower) THEN "high"
     ELSE IF AnyKeywordIn(medium_risk_keywords, text_lower) THEN "medium"
     ELSE "low"

\* The classifier is an external model: dist is what it does in this run, either
\* raise or give the negative-sentiment confidence dist.negative_confidence.
_assess_with_distilbert(text, dist) ==
  IF dist.raises THEN Raised
  ELSE IF dist.negative_confidence > HighConfidence THEN "high"
  ELSE IF dist.negative_confidence > MediumConfidence THEN "medium"
  ELSE "low"

assess(text, model, dist) ==
  IF model = "loaded" THEN _assess_with_distilbert(text, dist)
  ELSE _assess_with_keywords(text)

\* what the loaded classifier may do in a run: raise, or score every text alike
Confidences == {50, 70, 90}
DistilbertBehaviours ==
  {[raises |-> FALSE, negative_confidence |-> c] : c \in Confidences}
    \cup {[raises |-> TRUE, negative_confidence |-> 0]}
NoDistilbert == [raises |-> FALSE, negative_confidence |-> 0]

\* RiskAssessor.__init__: the model loads, or the load fails and the keyword
\* lists are set
RiskAssessorInit ==
  \/ risk_model = "none" /\ distilbert = NoDistilbert
  \/ risk_model = "loaded" /\ distilbert \in DistilbertBehaviours

(***************************************************************************)
(* Clause records (models/contract.py) and clause typing                   *)
(***************************************************************************)
\* Clause(id=..., text=..., metadata=...): the other fields take their defaults
Clause(id, text, metadata) ==
  [id |-> id, text |-> text, legal_category |-> None, risk_level |-> None,
   key_terms |-> <<>>, obligations |-> <<>>, conditions |-> <<>>, metadata |-> metadata]

clause_keywords ==
  << <<"payment", <<"payment", "compensation", "remuneration", "fee", "salary", "invoice">> >>,
     <<"termination", <<"terminate", "termination", "expire", "expiry", "end", "conclude">> >>,
     <<"liability", <<"liable", "liability", "responsible", "responsibility", "damages", "loss">> >>,
     <<"confidentiality", <<"confidential", "confidentiality", "non-disclosure", "proprietary", "trade secret">> >>,
     <<"intellectual_property", <<"copyright", "trademark", "patent", "intellectual property", "ip", "proprietary">> >>,
     <<"dispute_resolution", <<"dispute", "arbitration", "mediation", "litigation", "court", "jurisdiction">> >>,
     <<"force_majeure", <<"force majeure", "act of god", "unforeseeable", "beyond control">> >>,
     <<"governing_law", <<"governing law", "jurisdiction", "applicable law", "laws of">> >>,
     <<"assignment", <<"assign", "assignment", "transfer", "delegate", "succession">> >>,
     <<"amendment", <<"amend", "amendment", "modify", "modification", "change", "alter">> >> >>

\* sum(1 for keyword in keywords if keyword in text_lower)
KeywordScore(keywords, text_lower) ==
  Cardinality({k \in DOMAIN keywords : Contains(text_lower, Chars(keywords[k]))})

_determine_clause_type(text) ==
  LET text_lower == LowerChars(text)
      score == [t \in DOMAIN clause_keywords |-> KeywordScore(clause_keywords[t][2], text_lower)]
      scored == {t \in DOMAIN clause_keywords : score[t] > 0}
      \* max(): the first entry, in table order, with the highest score
      best == CHOOSE t \in scored :
                 /\ \A u \in scored : score[u] <= score[t]
                 /\ \A u \in scored : score[u] = score[t] => t <= u
  IN IF scored = {} THEN "general" ELSE clause_keywords[best][1]

RECURSIVE FlattenSeqs(_)
FlattenSeqs(seqs) == IF seqs = <<>> THEN <<>> ELSE Head(seqs) \o FlattenSeqs(Tail(seqs))

_extract_legal_keywords(text) ==
  LET all_keywords == FlattenSeqs([t \in DOMAIN clause_keywords |-> clause_keywords[t][2]])
      text_lower == LowerChars(text)
      IsFound(keyword) == Contains(text_lower, Chars(keyword))
  IN SelectSeq(all_keywords, IsFound)

(***************************************************************************)
(* Deduplication of candidates: LayoutParser._merge_duplicate_clauses      *)
(***************************************************************************)
\* candidates whose alphanumeric-only form is shorter than this are skipped
MinCleanLen == 20
\* similarity > 0.95, in percent
SimilarityPercent == 95
\* len(a) < len(b) * 0.6, in tenths
LengthRatioTenths == 6

IsWordChar(c) == c \in WordSet
\* re.sub(r'\W+', '', clause.lower())
CleanForm(clause) == SelectSeq(LowerChars(clause), IsWordChar)

\* similarity > 0.95 where
\* similarity = len(set(a) & set(b)) / max(len(a), len(b))
SimilarityAbove(a, b) ==
  LET shared == Cardinality(Range(a) \cap Range(b))
      longest == IF Len(a) >= Len(b) THEN Len(a) ELSE Len(b)
  IN 100 * shared > SimilarityPercent * longest

\* len(a) < len(b) * 0.6
ShorterThanRatio(a, b) == 10 * Len(a) < LengthRatioTenths * Len(b)

IsDuplicate_NoLengthTest(clause_clean, existing_clean) ==
  SimilarityAbove(clause_clean, existing_clean)

\* the test of lines 474-476
IsDuplicate(clause_clean, existing_clean) ==
  /\ SimilarityAbove(clause_clean, existing_clean)
  /\ \/ ShorterThanRatio(clause_clean, existing_clean)
     \/ ShorterThanRatio(existing_clean, clause_clean)

RECURSIVE UniqueFrom(_, _, _)
\* The loop of _merge_duplicate_clauses from candidate i on; unique holds the
\* indices of the candidates accepted so far.
UniqueFrom(clauses, i, unique) ==
  IF i > Len(clauses) THEN unique
  ELSE LET clause_clean == CleanForm(clauses[i])
           is_duplicate == \E k \in DOMAIN unique :
                              IsDuplicate(clause_clean, CleanForm(clauses[unique[k]]))
       IN IF Len(clause_clean) < MinCleanLen THEN UniqueFrom(clauses, i + 1, unique)
          ELSE IF is_duplicate THEN UniqueFrom(clauses, i + 1, unique)
          ELSE UniqueFrom(clauses, i + 1, Append(unique, i))

\* the indices of the candidates _merge_duplicate_clauses keeps
unique_indices(clauses) == UniqueFrom(clauses, 1, <<>>)

_merge_duplicate_clauses(clauses) ==
  LET kept == unique_indices(clauses)
  IN [k \in DOMAIN kept |-> clauses[kept[k]]]

(***************************************************************************)
(* The Clause Merger: LayoutParser._merge_related_clauses                  *)
(***************************************************************************)
\* neither clause may be longer than this
MaxMergeLen == 500

IC == Flags(TRUE, FALSE, FALSE)
continuation_patterns ==
  << Pattern(Cat(<<Wb, Lit("provided that"), Wb>>), IC, 0),
     Pattern(Cat(<<Wb, Lit("however"), Wb>>), IC, 0),
     Pattern(Cat(<<Wb, Lit("notwithstanding"), Wb>>), IC, 0),
     Pattern(Cat(<<Wb, Lit("subject to"), Wb>>), IC, 0),
     Pattern(Cat(<<Wb, Lit("unless"), Wb>>), IC, 0),
     Pattern(Cat(<<Wb, Lit("except"), Wb>>), IC, 0) >>

\* re.search(pattern, text) finds a match
Found(p, text) == Search(Chars(text), p, 1).ok

_should_merge_clauses_FirstClause(clause1, clause2) ==
  IF Len(clause1.text) > MaxMergeLen \/ Len(clause2.text) > MaxMergeLen THEN FALSE
  ELSE \E k \in DOMAIN continuation_patterns : Found(continuation_patterns[k], clause1.text)

_should_merge_clauses(clause1, clause2) ==
  IF Len(clause1.text) > MaxMergeLen \/ Len(clause2.text) > MaxMergeLen THEN FALSE
  ELSE \E k \in DOMAIN continuation_patterns : Found(continuation_patterns[k], clause2.text)

MergedClause_SecondId(current, next) ==
  Clause(next.id, current.text \o " " \o next.text,
         [current.metadata EXCEPT !.merged = TRUE, !.merged_with = next.id])

\* the merged clause of lines 499-508
MergedClause(current, next) ==
  Clause(current.id, current.text \o " " \o next.text,
         [current.metadata EXCEPT !.merged = TRUE, !.merged_with = next.id])

RECURSIVE MergeFrom(_, _)
\* the while loop of _merge_related_clauses from index i on
MergeFrom(clauses, i) ==
  IF i > Len(clauses) THEN <<>>
  ELSE IF i + 1 <= Len(clauses) /\ _should_merge_clauses(clauses[i], clauses[i + 1])
       THEN <<MergedClause(clauses[i], clauses[i + 1])>> \o MergeFrom(clauses, i + 2)
       ELSE <<clauses[i]>> \o MergeFrom(clauses, i + 1)

_merge_related_clauses(clauses) == MergeFrom(clauses, 1)

(***************************************************************************)
(* The Section Builder: LayoutParser._extract_sections_enhanced            *)
(***************************************************************************)
NoFlags == Flags(FALSE, FALSE, FALSE)
ML == Flags(FALSE, TRUE, FALSE)
MLIC == Flags(TRUE, TRUE, FALSE)
RomanSet == {"I", "V", "X", "L", "C", "D", "M"}
Ch(c) == C({c})

\* re.split(pattern, str) for a pattern without groups: the pieces between
\* the matches
RECURSIVE SplitFrom(_, _, _, _)
SplitFrom(str, ms, k, from) ==
  IF k > Len(ms) THEN <<Slice(str, from, Len(str))>>
  ELSE <<Slice(str, from, ms[k].start - 1)>> \o SplitFrom(str, ms, k + 1, ms[k].end)
Split(str, p) == SplitFrom(str, FindIter(Chars(str), p, 1), 1, 1)

\* str.isupper(): some cased character, and no lowercase one
IsUpper(str) ==
  LET cs == Range(Chars(str))
  IN cs \cap UpperSet # {} /\ cs \cap LowerSet = {}

\* r'\n\s*\n'
blank_line == Pattern(Cat(<<Ch("\n"), Star(S), Ch("\n")>>), NoFlags, 0)

legal_heading_patterns ==
  << \* r'^(ARTICLE|SECTION)\s+([IVXLCDM]+|\d+)[\.\s]+(.+?)$', MULTILINE | IGNORECASE
     Pattern(Cat(<<Bol, Grp(1, Alt(<<Lit("ARTICLE"), Lit("SECTION")>>)), Plus(S),
                   Grp(2, Alt(<<Plus(C(RomanSet)), Plus(D)>>)),
                   Plus(C({"."} \cup SpaceSet)), Grp(3, RepLazy(Dot, 1, Inf)), Eol>>),
             MLIC, 3),
     \* r'^\s*(\d+)\.?\s+([A-Z][A-Za-z\s]+)\.?\s*$', MULTILINE
     Pattern(Cat(<<Bol, Star(S), Grp(1, Plus(D)), Opt(Ch(".")), Plus(S),
                   Grp(2, Cat(<<C(UpperSet), Plus(C(LetterSet \cup SpaceSet))>>)),
                   Opt(Ch(".")), Star(S), Eol>>),
             ML, 2),
     \* r'^\s*([A-Z])\.?\s+([A-Z][A-Za-z\s]+)\.?\s*$', MULTILINE
     Pattern(Cat(<<Bol, Star(S), Grp(1, C(UpperSet)), Opt(Ch(".")), Plus(S),
                   Grp(2, Cat(<<C(UpperSet), Plus(C(LetterSet \cup SpaceSet))>>)),
                   Opt(Ch(".")), Star(S), Eol>>),
             ML, 2),
     \* r'^([A-Z][A-Z\s]{3,})\.?\s*$', MULTILINE
     Pattern(Cat(<<Bol, Grp(1, Cat(<<C(UpperSet), Rep(C(UpperSet \cup SpaceSet), 3, Inf)>>)),
                   Opt(Ch(".")), Star(S), Eol>>),
             ML, 1),
     \* r'^(RECITALS?|BACKGROUND|PREAMBLE)\s*$', MULTILINE | IGNORECASE
     Pattern(Cat(<<Bol, Grp(1, Alt(<<Cat(<<Lit("RECITAL"), Opt(Ch("S"))>>),
                                     Lit("BACKGROUND"), Lit("PREAMBLE")>>)),
                   Star(S), Eol>>),
             MLIC, 1) >>

\* The breaks found by pattern k, in the order finditer gives them.  start and
\* end are 1-based, end exclusive.  A break has no 'level' key.
BreaksOf(text, k) ==
  LET found == FindIter(Chars(text), legal_heading_patterns[k], 1)
  IN [n \in DOMAIN found |->
        [start |-> found[n].start, end |-> found[n].end,
         title |-> Strip(MatchText(text, found[n])), pattern_type |-> k]]

\* list.sort(key=lambda x: x['start']): a stable sort
SortByStart(breaks) ==
  LET rank(i) == Cardinality({j \in DOMAIN breaks :
                    \/ breaks[j].start < breaks[i].start
                    \/ (breaks[j].start = breaks[i].start /\ j < i)}) + 1
  IN [n \in DOMAIN breaks |-> breaks[CHOOSE i \in DOMAIN breaks : rank(i) = n]]

\* section_breaks of _extract_sections_enhanced, sorted
section_breaks(text) ==
  SortByStart(FlattenSeqs([k \in DOMAIN legal_heading_patterns |-> BreaksOf(text, k)]))

_classify_section_type(title) ==
  LET title_lower == LowerChars(title)
      has(word) == Contains(title_lower, Chars(word))
  IN IF has("definition") THEN "definitions"
     ELSE IF has("term") THEN "terms"
     ELSE IF has("obligation") \/ has("duties") THEN "obligations"
     ELSE IF has("payment") THEN "payment"
     ELSE IF has("termination") THEN "termination"
     ELSE "general"

\* importance_score: Optional[float] = None.  A score is the exact fraction
\* <<numerator, denominator>>; the unset score is the empty tuple.
NoScore == <<>>

\* ContractSection(id=..., title=..., text=..., clauses=[], ...); the metadata
\* is what a reader gets from metadata.get(key): None while the key is absent
ContractSection(id, title, text, level, section_type, parent_section, hierarchy_level, importance_score) ==
  [id |-> id, title |-> title, text |-> text, clauses |-> <<>>, level |-> level,
   section_type |-> section_type, importance_score |-> importance_score,
   metadata |-> [parent_section |-> parent_section, hierarchy_level |-> hierarchy_level,
                 semantic_group |-> None, semantic_score |-> None]]

critical_keywords ==
  << <<"liability", 10>>, <<"indemnification", 10>>, <<"damages", 8>>,
     <<"termination", 9>>, <<"breach", 8>>, <<"default", 8>>,
     <<"payment", 7>>, <<"compensation", 6>>, <<"fee", 5>>,
     <<"confidential", 7>>, <<"proprietary", 6>>, <<"trade secret", 8>>,
     <<"intellectual property", 9>>, <<"copyright", 6>>, <<"patent", 6>>,
     <<"governing law", 5>>, <<"jurisdiction", 5>>, <<"dispute", 6>>,
     <<"force majeure", 4>>, <<"assignment", 4>>, <<"amendment", 3>> >>
moderate_keywords ==
  << <<"performance", 4>>, <<"delivery", 4>>, <<"service", 3>>,
     <<"warranty", 5>>, <<"representation", 4>>, <<"compliance", 5>>,
     <<"insurance", 4>>, <<"notice", 2>>, <<"consent", 3>>,
     <<"approval", 3>>, <<"standard", 2>>, <<"requirement", 3>> >>
\* min(occurrences, 3) and min(occurrences, 2)
CriticalCap == 3
ModerateCap == 2

\* the positions of hay where needle occurs
OccurrencesAt(hay, needle) ==
  {i \in 1..(Len(hay) - Len(needle) + 1) : SubSeq(hay, i, i + Len(needle) - 1) = needle}

RECURSIVE CountFrom(_, _, _)
\* the occurrences counted from position i on, none overlapping another
CountFrom(at, width, i) ==
  LET ahead == {j \in at : j >= i}
  IN IF ahead = {} THEN 0 ELSE 1 + CountFrom(at, width, Min(ahead) + width)

\* hay.count(needle)
Count(hay, needle) == CountFrom(OccurrencesAt(hay, needle), Len(needle), 1)

RECURSIVE WeightSum(_)
\* max_possible_score of one keyword table
WeightSum(keywords) ==
  IF keywords = <<>> THEN 0 ELSE Head(keywords)[2] + WeightSum(Tail(keywords))

RECURSIVE WeightedScore(_, _, _)
\* total_score of one keyword table
WeightedScore(keywords, text_lower, cap) ==
  IF keywords = <<>> THEN 0
  ELSE Head(keywords)[2] * Min({Count(text_lower, Chars(Head(keywords)[1])), cap})
       + WeightedScore(Tail(keywords), text_lower, cap)

\* total_score * (1 + min(len/1000, 2.0) * 0.1) / (max_possible_score * 0.3),
\* capped at 1.0; both sides of the division are multiplied by 10000
_calculate_section_importance(text) ==
  LET text_lower == LowerChars(text)
      total_score == WeightedScore(critical_keywords, text_lower, CriticalCap)
                     + WeightedScore(moderate_keywords, text_lower, ModerateCap)
      max_possible_score == WeightSum(critical_keywords) + WeightSum(moderate_keywords)
      boosted == total_score * (10000 + Min({Len(text), 2000}))
      scale == 3000 * max_possible_score
  IN <<Min({boosted, scale}), scale>>

\* break_info.get('level', 1)
LevelOf(break_info) == IF "level" \in DOMAIN break_info THEN break_info.level ELSE 1

parent_id_SameLevel(breaks, i) ==
  LET level == LevelOf(breaks[i])
      lower == {j \in 1..(i - 1) : LevelOf(breaks[j]) <= level}
  IN IF lower # {} THEN "S" \o ToString(Max(lower)) ELSE None

\* lines 931-938: the nearest earlier break of a lower level, for a break of
\* level above 1
parent_id(breaks, i) ==
  LET level == LevelOf(breaks[i])
      lower == {j \in 1..(i - 1) : LevelOf(breaks[j]) < level}
  IN IF level > 1 /\ lower # {} THEN "S" \o ToString(Max(lower)) ELSE None

_create_hierarchical_sections(text, breaks) ==
  [i \in DOMAIN breaks |->
     LET start == breaks[i].start
         end == IF i + 1 <= Len(breaks) THEN breaks[i + 1].start ELSE Len(text) + 1
         section_text == Strip(Slice(text, start, end - 1))
     IN ContractSection("S" \o ToString(i), breaks[i].title, section_text,
                        LevelOf(breaks[i]), _classify_section_type(breaks[i].title),
                        parent_id(breaks, i), LevelOf(breaks[i]),
                        _calculate_section_importance(section_text))]

section_indicators ==
  << \* r'^\d+\.'
     Pattern(Cat(<<Bol, Plus(D), Ch(".")>>), IC, 0),
     \* r'^[A-Z]\.'
     Pattern(Cat(<<Bol, C(UpperSet), Ch(".")>>), IC, 0),
     \* r'^[IVXLCDM]+\.'
     Pattern(Cat(<<Bol, Plus(C(RomanSet)), Ch(".")>>), IC, 0),
     \* r'^(WHEREAS|NOW THEREFORE|PROVIDED|SUBJECT TO)'
     Pattern(Cat(<<Bol, Grp(1, Alt(<<Lit("WHEREAS"), Lit("NOW THEREFORE"), Lit("PROVIDED"),
                                     Lit("SUBJECT TO")>>))>>), IC, 1),
     \* r'^[A-Z][A-Z\s]{5,}$'
     Pattern(Cat(<<Bol, C(UpperSet), Rep(C(UpperSet \cup SpaceSet), 5, Inf), Eol>>), IC, 0) >>

\* re.match(pattern, str) finds a match
Matches(p, str) == MatchAt(Chars(str), p, 1).ok

_is_section_start(paragraph) ==
  \/ \E k \in DOMAIN section_indicators : Matches(section_indicators[k], Strip(paragraph))
  \/ (Len(paragraph) < 100 /\ IsUpper(paragraph))

\* shortest paragraph the fallback keeps, and the length of the text the
\* section type is read from
MinParagraphLen == 20
SectionTypePrefix == 100

RECURSIVE FallbackFrom(_, _, _, _)
\* The loop of _fallback_section_extraction from paragraph k on, then the
\* final section.  done holds the sections made so far.
FallbackFrom(paragraphs, k, current_section_text, done) ==
  LET section_count == Len(done) + 1
      section == ContractSection("S" \o ToString(section_count),
                    "Section " \o ToString(section_count), Strip(current_section_text), 1,
                    _classify_section_type(
                       Slice(current_section_text, 1,
                             Min({SectionTypePrefix, Len(current_section_text)}))),
                    None, None, _calculate_section_importance(current_section_text))
  IN IF k > Len(paragraphs)
     THEN (IF current_section_text # "" THEN Append(done, section) ELSE done)
     ELSE LET para == Strip(paragraphs[k])
          IN IF Len(para) < MinParagraphLen
             THEN FallbackFrom(paragraphs, k + 1, current_section_text, done)
             ELSE IF _is_section_start(para)
             THEN FallbackFrom(paragraphs, k + 1, para,
                     IF current_section_text # "" THEN Append(done, section) ELSE done)
             ELSE FallbackFrom(paragraphs, k + 1, current_section_text \o "\n\n" \o para, done)

_fallback_section_extraction(text) ==
  LET made == FallbackFrom(Split(text, blank_line), 1, "", <<>>)
  IN IF made # <<>> THEN made
     ELSE <<ContractSection("S1", "Complete Document", text, 1, None, None, None, NoScore)>>

\* the group table of _apply_semantic_grouping, in the order of the dict
semantic_groups ==
  << <<"contract_formation", <<"recital", "background", "preamble", "whereas", "parties">> >>,
     <<"definitions", <<"definition", "interpretation", "meaning">> >>,
     <<"core_terms", <<"scope", "work", "service", "deliverable", "performance">> >>,
     <<"financial", <<"payment", "fee", "cost", "price", "compensation", "invoice">> >>,
     <<"legal_compliance", <<"law", "regulation", "compliance", "jurisdiction", "governing">> >>,
     <<"risk_management", <<"liability", "insurance", "indemnification", "limitation">> >>,
     <<"ip_confidentiality", <<"intellectual", "property", "confidential", "proprietary", "trade secret">> >>,
     <<"contract_management", <<"term", "duration", "renewal", "termination", "amendment">> >>,
     <<"dispute_resolution", <<"dispute", "arbitration", "mediation", "litigation">> >>,
     <<"miscellaneous", <<"general", "miscellaneous", "other", "additional">> >> >>
\* the part of the section text the group is read from
SemanticPrefix == 200

RECURSIVE GroupScoreFrom(_, _, _, _)
\* the score of one group: 3 for a keyword in the title, 1 for one in the text
GroupScoreFrom(keywords, title_lower, text_lower, k) ==
  IF k > Len(keywords) THEN 0
  ELSE (IF Contains(title_lower, Chars(keywords[k])) THEN 3 ELSE 0)
       + (IF Contains(text_lower, Chars(keywords[k])) THEN 1 ELSE 0)
       + GroupScoreFrom(keywords, title_lower, text_lower, k + 1)

\* lines 981-993: best_group and best_score after the loop over the groups; a
\* later group replaces the best one only with a higher score
BestGroup(scores) ==
  LET top == Max({scores[g] : g \in DOMAIN scores})
      first == Min({g \in DOMAIN scores : scores[g] = top})
  IN IF top > 0 THEN <<semantic_groups[first][1], top>> ELSE <<"miscellaneous", 0>>

GroupOf(title_lower, text_lower) ==
  BestGroup([g \in DOMAIN semantic_groups |->
               GroupScoreFrom(semantic_groups[g][2], title_lower, text_lower, 1)])

WithGroup(section, best) ==
  [section EXCEPT !.metadata.semantic_group = best[1], !.metadata.semantic_score = best[2]]

_apply_semantic_grouping(secs) ==
  [i \in DOMAIN secs |->
     WithGroup(secs[i],
               GroupOf(LowerChars(secs[i].title),
                       LowerChars(Slice(secs[i].text, 1,
                                        Min({SemanticPrefix, Len(secs[i].text)})))))]

\* from the breaks to the sections: lines 246-253
SectionsOfBreaks(text, breaks) ==
  IF breaks = <<>> THEN _fallback_section_extraction(text)
  ELSE _apply_semantic_grouping(_create_hierarchical_sections(text, breaks))

_extract_sections_enhanced(text) == SectionsOfBreaks(text, section_breaks(text))

\* re.match of the three prefixes of _determine_heading_level
heading_prefixes ==
  << \* r'^\s*(ARTICLE|SECTION)', IGNORECASE
     Pattern(Cat(<<Bol, Star(S), Grp(1, Alt(<<Lit("ARTICLE"), Lit("SECTION")>>))>>), IC, 1),
     \* r'^\s*\d+\.'
     Pattern(Cat(<<Bol, Star(S), Plus(D), Ch(".")>>), NoFlags, 0),
     \* r'^\s*[A-Z]\.'
     Pattern(Cat(<<Bol, Star(S), C(UpperSet), Ch(".")>>), NoFlags, 0) >>

_determine_heading_level(heading) ==
  IF Matches(heading_prefixes[1], heading) THEN 1
  ELSE IF Matches(heading_prefixes[2], heading) THEN 2
  ELSE IF Matches(heading_prefixes[3], heading) THEN 3
  ELSE IF IsUpper(heading) THEN 1
  ELSE 4

(***************************************************************************)
(* The Clause Extractor: LayoutParser._extract_clauses_enhanced            *)
(***************************************************************************)
MLDA == Flags(FALSE, TRUE, TRUE)
ICDA == Flags(TRUE, FALSE, TRUE)
Body(n) == Grp(n, RepLazy(Dot, 1, Inf))

\* legal_patterns, in priority order
legal_patterns ==
  << \* numbered_clause: r'^\s*(\d+)\.\s+(.+?)(?=^\s*\d+\.\s|\Z)', MULTILINE | DOTALL
     Pattern(Cat(<<Bol, Star(S), Grp(1, Plus(D)), Ch("."), Plus(S), Body(2),
                   La(Alt(<<Cat(<<Bol, Star(S), Plus(D), Ch("."), S>>), EndZ>>))>>),
             MLDA, 2),
     \* sub_numbered: r'^\s*(\d+\.\d+)\s+(.+?)(?=^\s*\d+\.\d+\s|\Z)', MULTILINE | DOTALL
     Pattern(Cat(<<Bol, Star(S), Grp(1, Cat(<<Plus(D), Ch("."), Plus(D)>>)), Plus(S), Body(2),
                   La(Alt(<<Cat(<<Bol, Star(S), Plus(D), Ch("."), Plus(D), S>>), EndZ>>))>>),
             MLDA, 2),
     \* lettered: r'^\s*\(([a-z])\)\s+(.+?)(?=^\s*\([a-z]\)\s|\Z)', MULTILINE | DOTALL
     Pattern(Cat(<<Bol, Star(S), Ch("("), Grp(1, C(LowerSet)), Ch(")"), Plus(S), Body(2),
                   La(Alt(<<Cat(<<Bol, Star(S), Ch("("), C(LowerSet), Ch(")"), S>>), EndZ>>))>>),
             MLDA, 2),
     \* roman: r'^\s*([IVXLCDM]+)\.\s+(.+?)(?=^\s*[IVXLCDM]+\.\s|\Z)', MULTILINE | DOTALL
     Pattern(Cat(<<Bol, Star(S), Grp(1, Plus(C(RomanSet))), Ch("."), Plus(S), Body(2),
                   La(Alt(<<Cat(<<Bol, Star(S), Plus(C(RomanSet)), Ch("."), S>>), EndZ>>))>>),
             MLDA, 2),
     \* whereas: r'\bWHEREAS,?\s+(.+?)(?=\bWHEREAS\b|\bNOW,?\s+THEREFORE\b|\Z)',
     \* IGNORECASE | DOTALL
     Pattern(Cat(<<Wb, Lit("WHEREAS"), Opt(Ch(",")), Plus(S), Body(1),
                   La(Alt(<<Cat(<<Wb, Lit("WHEREAS"), Wb>>),
                            Cat(<<Wb, Lit("NOW"), Opt(Ch(",")), Plus(S), Lit("THEREFORE"), Wb>>),
                            EndZ>>))>>),
             ICDA, 1),
     \* definition: r'"([^"]+)"\s+(?:means|shall mean|is defined as)\s+(.+?)(?=\.|;|\n\n)',
     \* IGNORECASE
     Pattern(Cat(<<Ch("\""), Grp(1, Plus(NC({"\""}))), Ch("\""), Plus(S),
                   Alt(<<Lit("means"), Lit("shall mean"), Lit("is defined as")>>), Plus(S),
                   Body(2), La(Alt(<<Ch("."), Ch(";"), Lit("\n\n")>>))>>),
             IC, 2),
     \* termination: r'((?:Termination|Term)\s+[^.]*\.(?:[^.]*\.)*)', IGNORECASE
     Pattern(Grp(1, Cat(<<Alt(<<Lit("Termination"), Lit("Term")>>), Plus(S),
                          Star(NC({"."})), Ch("."),
                          Star(Cat(<<Star(NC({"."})), Ch(".")>>))>>)),
             IC, 1) >>

\* ' '.join(str(m) for m in match if m) over the groups of a match, or the one
\* group of a pattern that has one
FindallText(text, p, m) ==
  LET groups == [g \in 1..p.groups |-> GroupText(text, m, g)]
      IsNonEmpty(str) == str # ""
  IN IF p.groups = 1 THEN groups[1] ELSE JoinWith(SelectSeq(groups, IsNonEmpty), " ")

\* a pattern match shorter than this, stripped, is no candidate
MinPatternClauseLen == 10

_extract_by_patterns(text) ==
  LET OfPattern(k) ==
        LET found == FindIter(Chars(text), legal_patterns[k], 1)
            texts == [n \in DOMAIN found |-> Strip(FindallText(text, legal_patterns[k], found[n]))]
            IsLongEnough(str) == Len(str) > MinPatternClauseLen
        IN SelectSeq(texts, IsLongEnough)
  IN FlattenSeqs([k \in DOMAIN legal_patterns |-> OfPattern(k)])

\* doc.sents of the spaCy pipeline, which is not part of the repository: a
\* sentence ends after '.', '!' or '?' followed by whitespace, and at the end
\* of the text.  Each sentence is given as sent.text.strip().
SentenceEnd == Pattern(Cat(<<Plus(C({".", "!", "?"})), Plus(S)>>), NoFlags, 0)
RECURSIVE SentencesFrom(_, _, _, _)
SentencesFrom(text, ms, k, from) ==
  IF k > Len(ms) THEN <<Slice(text, from, Len(text))>>
  ELSE <<Slice(text, from, ms[k].end - 1)>> \o SentencesFrom(text, ms, k + 1, ms[k].end)
Sentences(text) ==
  LET IsNonEmpty(str) == str # ""
      parts == SentencesFrom(text, FindIter(Chars(text), SentenceEnd, 1), 1, 1)
  IN SelectSeq([k \in DOMAIN parts |-> Strip(parts[k])], IsNonEmpty)

boundary_indicators ==
  << \* r'^\s*\d+\.'
     Pattern(Cat(<<Bol, Star(S), Plus(D), Ch(".")>>), IC, 0),
     \* r'^\s*\([a-z]\)'
     Pattern(Cat(<<Bol, Star(S), Ch("("), C(LowerSet), Ch(")")>>), IC, 0),
     \* r'^\s*[IVXLCDM]+\.'
     Pattern(Cat(<<Bol, Star(S), Plus(C(RomanSet)), Ch(".")>>), IC, 0),
     \* r'^\s*(?:WHEREAS|NOW THEREFORE|PROVIDED|SUBJECT TO)'
     Pattern(Cat(<<Bol, Star(S), Alt(<<Lit("WHEREAS"), Lit("NOW THEREFORE"), Lit("PROVIDED"),
                                       Lit("SUBJECT TO")>>)>>), IC, 0) >>

\* most sentences a clause may hold before the next one starts a new clause
MaxSentencesPerClause == 3

_is_clause_boundary_AtThree(sentence, current_clause) ==
  \/ \E k \in DOMAIN boundary_indicators : Matches(boundary_indicators[k], sentence)
  \/ Len(current_clause) >= MaxSentencesPerClause

_is_clause_boundary(sentence, current_clause) ==
  \/ \E k \in DOMAIN boundary_indicators : Matches(boundary_indicators[k], sentence)
  \/ Len(current_clause) > MaxSentencesPerClause

RECURSIVE GroupSentences(_, _, _)
\* the loop of _extract_by_sentences from sentence k on, then the final clause
GroupSentences(sents, k, current_clause) ==
  IF k > Len(sents)
  THEN (IF current_clause # <<>> THEN <<JoinWith(current_clause, " ")>> ELSE <<>>)
  ELSE IF _is_clause_boundary(sents[k], current_clause)
       THEN (IF current_clause # <<>> THEN <<JoinWith(current_clause, " ")>> ELSE <<>>)
               \o GroupSentences(sents, k + 1, <<sents[k]>>)
       ELSE GroupSentences(sents, k + 1, Append(current_clause, sents[k]))

_extract_by_sentences(text, has_nlp) ==
  IF ~has_nlp THEN <<>> ELSE GroupSentences(Sentences(text), 1, <<>>)

Words(alternatives) == Cat(<<Wb, Alt([k \in DOMAIN alternatives |-> Lit(alternatives[k])]), Wb>>)
legal_indicators ==
  << \* r'\b(?:shall|will|must|may not|agree|covenant|warrant|represent)\b'
     Pattern(Words(<<"shall", "will", "must", "may not", "agree", "covenant", "warrant",
                     "represent">>), IC, 0),
     \* r'\b(?:party|parties|agreement|contract|terms|conditions)\b'
     Pattern(Words(<<"party", "parties", "agreement", "contract", "terms", "conditions">>), IC, 0),
     \* r'\b(?:liable|liability|damages|breach|violation|default)\b'
     Pattern(Words(<<"liable", "liability", "damages", "breach", "violation", "default">>), IC, 0),
     \* r'\b(?:terminate|termination|expire|effective|binding)\b'
     Pattern(Words(<<"terminate", "termination", "expire", "effective", "binding">>), IC, 0) >>

_contains_legal_content(text) ==
  \E k \in DOMAIN legal_indicators : Found(legal_indicators[k], text)

\* r'(?=\b(?:provided that|provided,|however,|notwithstanding|subject to)\b)', IGNORECASE
legal_marker ==
  Pattern(La(Words(<<"provided that", "provided,", "however,", "notwithstanding", "subject to">>)),
          IC, 0)

\* a paragraph must be longer than this to give candidates
MinParagraphClauseLen == 20

_extract_by_paragraphs(text) ==
  LET paragraphs == Split(text, blank_line)
      IsNonEmpty(str) == str # ""
      OfParagraph(k) ==
        LET para == Strip(paragraphs[k])
            sub_clauses == Split(para, legal_marker)
        IN IF Len(para) > MinParagraphClauseLen /\ _contains_legal_content(para)
           THEN SelectSeq([n \in DOMAIN sub_clauses |-> Strip(sub_clauses[n])], IsNonEmpty)
           ELSE <<>>
  IN FlattenSeqs([k \in DOMAIN paragraphs |-> OfParagraph(k)])

\* len(text.split()): the number of runs of non-whitespace characters
WordCount(text) ==
  LET cs == Chars(text)
  IN Cardinality({i \in DOMAIN cs :
        cs[i] \notin SpaceSet /\ (i = 1 \/ cs[i - 1] \in SpaceSet)})

\* shortest valid clause, in characters and in words
MinClauseLen == 15
MinClauseWords == 3
\* r'\b(?:is|are|shall|will|must|may|can|should)\b', IGNORECASE
verb == Pattern(Words(<<"is", "are", "shall", "will", "must", "may", "can", "should">>), IC, 0)

_is_valid_clause(clause_text) ==
  LET text == Strip(clause_text)
  IN IF Len(text) < MinClauseLen \/ WordCount(text) < MinClauseWords THEN FALSE
     ELSE Found(verb, text) \/ _contains_legal_content(text)

RECURSIVE SubFrom(_, _, _, _, _)
\* re.sub(pattern, repl, str) over the matches ms
SubFrom(str, ms, k, from, repl) ==
  IF k > Len(ms) THEN Slice(str, from, Len(str))
  ELSE Slice(str, from, ms[k].start - 1) \o repl \o SubFrom(str, ms, k + 1, ms[k].end, repl)
Sub(p, repl, str) == SubFrom(str, FindIter(Chars(str), p, 1), 1, 1, repl)

\* r'\s+'
spaces == Pattern(Plus(S), NoFlags, 0)
\* r'^\s*[\d\.\(\)a-z]+\s*', IGNORECASE
leading_numbering ==
  Pattern(Cat(<<Bol, Star(S), Plus(C(DigitSet \cup {".", "(", ")"} \cup LowerSet)), Star(S)>>),
          IC, 0)

_clean_clause_text(clause_text) ==
  LET squeezed == Sub(spaces, " ", clause_text)
      text == Strip(Sub(leading_numbering, "", squeezed))
  IN IF text # "" /\ SubSeq(text, Len(text), Len(text)) \notin {".", "!", "?"}
     THEN text \o "." ELSE text

\* re.findall(pattern, text) for a pattern with no group or with one
Findall(p, text) ==
  LET found == FindIter(Chars(text), p, 1)
  IN [n \in DOMAIN found |->
        IF p.groups = 0 THEN MatchText(text, found[n]) ELSE GroupText(text, found[n], 1)]

\* singular or plural
Plural(word) == Cat(<<Lit(word), Opt(Ch("s"))>>)
key_term_patterns ==
  << \* r'\$[\d,]+(?:\.\d{2})?'
     Pattern(Cat(<<Ch("$"), Plus(C(DigitSet \cup {","})), Opt(Cat(<<Ch("."), D, D>>))>>),
             NoFlags, 0),
     \* r'\d+\s+(?:days?|months?|years?)'
     Pattern(Cat(<<Plus(D), Plus(S), Alt(<<Plural("day"), Plural("month"), Plural("year")>>)>>),
             NoFlags, 0),
     \* r'\d+%'
     Pattern(Cat(<<Plus(D), Ch("%")>>), NoFlags, 0) >>

\* [^.]+
UpToStop == Plus(NC({"."}))
obligation_patterns ==
  << \* r'(\w+\s+(?:shall|must|will|agrees?\s+to)\s+[^.]+)', IGNORECASE
     Pattern(Grp(1, Cat(<<Plus(C(WordSet)), Plus(S),
                          Alt(<<Lit("shall"), Lit("must"), Lit("will"),
                                Cat(<<Plural("agree"), Plus(S), Lit("to")>>)>>),
                          Plus(S), UpToStop>>)), IC, 1),
     \* r'(\w+\s+(?:is|are)\s+(?:required|obligated)\s+to\s+[^.]+)', IGNORECASE
     Pattern(Grp(1, Cat(<<Plus(C(WordSet)), Plus(S), Alt(<<Lit("is"), Lit("are")>>), Plus(S),
                          Alt(<<Lit("required"), Lit("obligated")>>), Plus(S), Lit("to"),
                          Plus(S), UpToStop>>)), IC, 1) >>
condition_patterns ==
  << \* r'(if\s+[^,]+,\s*[^.]+)', IGNORECASE
     Pattern(Grp(1, Cat(<<Lit("if"), Plus(S), Plus(NC({","})), Ch(","), Star(S), UpToStop>>)),
             IC, 1),
     \* r'(provided\s+that\s+[^.]+)', IGNORECASE
     Pattern(Grp(1, Cat(<<Lit("provided"), Plus(S), Lit("that"), Plus(S), UpToStop>>)), IC, 1),
     \* r'(subject\s+to\s+[^.]+)', IGNORECASE
     Pattern(Grp(1, Cat(<<Lit("subject"), Plus(S), Lit("to"), Plus(S), UpToStop>>)), IC, 1),
     \* r'(unless\s+[^.]+)', IGNORECASE
     Pattern(Grp(1, Cat(<<Lit("unless"), Plus(S), UpToStop>>)), IC, 1) >>

\* the matches of each pattern in turn, one list
FindallEach(patterns, text) ==
  FlattenSeqs([k \in DOMAIN patterns |-> Findall(patterns[k], text)])

RECURSIVE Distinct(_)
\* the first occurrences of the elements of seq, in order
Distinct(seq) ==
  IF seq = <<>> THEN <<>>
  ELSE LET last == seq[Len(seq)]
           before == SubSeq(seq, 1, Len(seq) - 1)
       IN IF last \in Range(before) THEN Distinct(before) ELSE Append(Distinct(before), last)

RECURSIVE Permuted(_, _)
\* permutation number k of seq: every order of seq is Permuted(seq, k) for
\* some k below Len(seq)!
Permuted(seq, k) ==
  IF seq = <<>> THEN <<>>
  ELSE LET pick == (k % Len(seq)) + 1
           rest == SubSeq(seq, 1, pick - 1) \o SubSeq(seq, pick + 1, Len(seq))
       IN <<seq[pick]>> \o Permuted(rest, k \div Len(seq))

\* list(set(terms)): the distinct terms, in the order the string hashes of
\* the process give
ListOfSet(terms, seed) == Permuted(Distinct(terms), seed)

_extract_key_terms(text, seed) == ListOfSet(FindallEach(key_term_patterns, text), seed)

StripEach(strs) == [n \in DOMAIN strs |-> Strip(strs[n])]
_extract_obligations(text) == StripEach(FindallEach(obligation_patterns, text))
_extract_conditions(text) == StripEach(FindallEach(condition_patterns, text))

\* r'[.!?]+'
sentence_marks == Pattern(Plus(C({".", "!", "?"})), NoFlags, 0)

\* the metadata of a clause; merged and merged_with are the values a reader
\* gets from metadata.get(...) while the keys are absent
ClauseMetadata(section_id, clause_text) ==
  [length |-> Len(clause_text), source |-> "enhanced_extraction", section_id |-> section_id,
   word_count |-> WordCount(clause_text),
   sentence_count |-> Len(Split(clause_text, sentence_marks)),
   legal_keywords |-> None, merged |-> FALSE, merged_with |-> None]

\* lines 276-291: the clause made of candidate clause_text, the n-th valid one
NewClause(section_id, n, clause_text, model, dist, seed) ==
  [Clause(section_id \o "_C" \o ToString(n), _clean_clause_text(clause_text),
          ClauseMetadata(section_id, clause_text))
     EXCEPT !.legal_category = _determine_clause_type(clause_text),
            !.risk_level = assess(clause_text, model, dist),
            !.key_terms = _extract_key_terms(clause_text, seed),
            !.obligations = _extract_obligations(clause_text),
            !.conditions = _extract_conditions(clause_text)]

\* lines 274-293: the clauses of the valid candidates, numbered from 1
ClausesOfCandidates(merged_clauses, section_id, model, dist, seed) ==
  [n \in DOMAIN merged_clauses |->
     NewClause(section_id, n, merged_clauses[n], model, dist, seed)]

\* what a call that builds clauses gives: raised tells that the risk
\* assessment of a candidate raised, which ends the call
Outcome(clauses) ==
  [raised |-> \E n \in DOMAIN clauses : clauses[n].risk_level = Raised, clauses |-> clauses]

\* element number n of the set of positions K, counted upwards
NthOf(K, n) == CHOOSE i \in K : Cardinality({j \in K : j < i}) = n - 1

NumberThenFilter(candidates, section_id, model, dist, seed) ==
  LET valid == {n \in DOMAIN candidates : _is_valid_clause(candidates[n])}
  IN Outcome([n \in 1..Cardinality(valid) |->
                NewClause(section_id, NthOf(valid, n), candidates[NthOf(valid, n)],
                          model, dist, seed)])

_extract_clauses_enhanced_CountInvalid(text, section_id, has_nlp, model, dist, seed) ==
  NumberThenFilter(_merge_duplicate_clauses(_extract_by_patterns(text)
                                              \o _extract_by_sentences(text, has_nlp)
                                              \o _extract_by_paragraphs(text)),
                   section_id, model, dist, seed)

_extract_clauses_enhanced(text, section_id, has_nlp, model, dist, seed) ==
  Outcome(ClausesOfCandidates(
            SelectSeq(_merge_duplicate_clauses(_extract_by_patterns(text)
                                                 \o _extract_by_sentences(text, has_nlp)
                                                 \o _extract_by_paragraphs(text)),
                      _is_valid_clause),
            section_id, model, dist, seed))

(***************************************************************************)
(* LayoutParser.parse_structure                                            *)
(***************************************************************************)
_classify_clauses(clauses) ==
  [k \in DOMAIN clauses |->
     [clauses[k] EXCEPT
        !.legal_category = IF @ = None THEN _determine_clause_type(clauses[k].text) ELSE @,
        !.metadata.legal_keywords = _extract_legal_keywords(clauses[k].text)]]

\* ProcessedContract(metadata=metadata, sections=sections, clauses=all_clauses)
ProcessedContract(secs, clauses) == [sections |-> secs, clauses |-> clauses]

Paragraphs ==
  {"The Company shall pay the fee.",
   "Payment is due unless the parties agree otherwise.",
   "provided that notice is given in writing.",
   "WHEREAS the parties agree to the terms.",
   "The cat sat on the mat today."}
Documents ==
  {"",
   "Hello",
   "This is a short contract.",
   "ARTICLE 1. Payment\nThe Company shall pay the fee.\nARTICLE 2. Term\nThis contract shall end in May.",
   "ARTICLE 1. Payment\nThe Company shall pay the fee.\nARTICLE 2. Term\nThis contract shall end unless renewed.",
   "1. Payment shall be made within 30 days. 2. Either party may terminate with 30 days notice.",
   "DEFINITIONS\n\"Fee\" means the price of the services.\n1. Payment Terms\nThe penalty is due.\nA. Late Fees",
   "The Company shall pay $500 within 30 days.",
   "The Company shall pay the fee unless waived. The Company shall pay the fee unless waived.",
   "1. the cat sat on the mat today.\n2. the Company shall pay the fee."}
     \cup {a \o "\n\n" \o b : a, b \in Paragraphs}

\* string hash seeds of the process: 0..MaxHashSeed
MaxHashSeed == 1
HashSeeds == 0..MaxHashSeed

\* the parser and its risk assessor are constructed, and parse_structure is
\* called on a document, without a document image
Init ==
  /\ pc = "start"
  /\ nlp \in BOOLEAN
  /\ hash_seed \in HashSeeds
  /\ RiskAssessorInit
  /\ raw_text \in Documents
  /\ sections = <<>> /\ sec_i = 0 /\ all_clauses = <<>> /\ result = None
  /\ fn_in = <<>> /\ fn_out = <<>>

\* line 184
ExtractSections ==
  /\ pc = "start"
  /\ sections' = _extract_sections_enhanced(raw_text)
  /\ sec_i' = 1
  /\ pc' = "clauses"
  /\ UNCHANGED <<hash_seed, nlp, risk_model, distilbert, raw_text, all_clauses, result, fn_in, fn_out>>

\* one turn of the loop of lines 193-199; the section flags are not carried
ExtractClauses ==
  /\ pc = "clauses" /\ sec_i <= Len(sections)
  /\ \E extracted \in {_extract_clauses_enhanced(sections[sec_i].text, sections[sec_i].id,
                                                  nlp, risk_model, distilbert, hash_seed)} :
        \/ /\ ~extracted.raised
           /\ sections' = [sections EXCEPT ![sec_i].clauses = extracted.clauses]
           /\ all_clauses' = all_clauses \o extracted.clauses
           /\ sec_i' = sec_i + 1
           /\ UNCHANGED <<pc, result>>
        \/ /\ extracted.raised
           /\ pc' = "raised"
           /\ result' = Raised
           /\ UNCHANGED <<sections, all_clauses, sec_i>>
  /\ UNCHANGED <<hash_seed, nlp, risk_model, distilbert, raw_text, fn_in, fn_out>>

\* line 202: the clauses are classified in place, so the sections, which hold
\* the same objects, see the change as well
ClassifyClauses ==
  /\ pc = "clauses" /\ sec_i > Len(sections)
  /\ all_clauses' = _classify_clauses(all_clauses)
  /\ sections' = [k \in DOMAIN sections |->
                    [sections[k] EXCEPT !.clauses = _classify_clauses(@)]]
  /\ pc' = "merge"
  /\ UNCHANGED <<hash_seed, nlp, risk_model, distilbert, raw_text, sec_i, result, fn_in, fn_out>>

\* line 203
MergeRelatedClauses ==
  /\ pc = "merge"
  /\ all_clauses' = _merge_related_clauses(all_clauses)
  /\ pc' = "return"
  /\ UNCHANGED <<hash_seed, nlp, risk_model, distilbert, raw_text, sections, sec_i, result, fn_in, fn_out>>

\* lines 205-209
Return ==
  /\ pc = "return"
  /\ result' = ProcessedContract(sections, all_clauses)
  /\ pc' = "done"
  /\ UNCHANGED <<hash_seed, nlp, risk_model, distilbert, raw_text, sections, sec_i, all_clauses,
                 fn_in, fn_out>>

Next ==
  \/ ExtractSections
  \/ ExtractClauses
  \/ ClassifyClauses
  \/ MergeRelatedClauses
  \/ Return

Spec == Init /\ [][Next]_vars

(***************************************************************************)
(* Direct calls of the helpers                                             *)
(***************************************************************************)
\* the variables of parse_structure, before any call
ParserIdle ==
  /\ pc = "idle" /\ raw_text = "" /\ sections = <<>> /\ sec_i = 0
  /\ all_clauses = <<>> /\ result = None
  /\ hash_seed = 0

RiskFragments ==
  {"unlimited liability", "Penalty", "indemnification", "attorney fees",
   "standard payment terms", "for all damages", "critical"}
RiskTexts == RiskFragments \cup {a \o " " \o b : a, b \in RiskFragments}

RiskInit ==
  /\ ParserIdle /\ nlp = FALSE
  /\ RiskAssessorInit
  /\ fn_in = "" /\ fn_out = ""

\* a call of risk_assessor.assess(text)
AssessCall ==
  \E text \in RiskTexts :
     /\ fn_in' = text
     /\ fn_out' = assess(text, risk_model, distilbert)
     /\ pc' = "done"
     /\ UNCHANGED <<hash_seed, nlp, risk_model, distilbert, raw_text, sections, sec_i,
                    all_clauses, result>>

RiskNext == AssessCall
SpecRisk == RiskInit /\ [][RiskNext]_vars

\* candidate lists for _merge_duplicate_clauses
MaxCands == 3
CandidatePool ==
  {"Payment terms are 30 days.",
   "Payment terms are 30 days. Payment terms are 30 days.",
   "Termination requires notice.",
   "Payment terms",
   "abcdefghij klmnopqrst."}
SeqsUpTo(Pool, n) == UNION {[1..k -> Pool] : k \in 0..n}

DedupInit ==
  /\ ParserIdle /\ nlp = FALSE
  /\ risk_model = "none" /\ distilbert = NoDistilbert
  /\ fn_in \in SeqsUpTo(CandidatePool, MaxCands) /\ fn_out = <<>>

\* a call of _merge_duplicate_clauses(fn_in)
DedupCall ==
  /\ pc = "idle"
  /\ fn_out' = _merge_duplicate_clauses(fn_in)
  /\ pc' = "done"
  /\ UNCHANGED <<hash_seed, nlp, risk_model, distilbert, raw_text, sections, sec_i,
                 all_clauses, result, fn_in>>

DedupNext == DedupCall
SpecDedup == DedupInit /\ [][DedupNext]_vars

\* clause lists for _merge_related_clauses
MaxClauses == 3
RECURSIVE Repeat(_, _)
Repeat(str, n) == IF n = 0 THEN "" ELSE str \o Repeat(str, n - 1)
LongClauseText == "provided that" \o Repeat(" the parties agree", 30)
ClauseTextPool ==
  {"The Company shall pay the fee.",
   "provided that notice is given.",
   "Payment is due unless waived.",
   "provided thatch is used.",
   LongClauseText}
\* classified clauses S1_C1, S1_C2, ... with the given texts
ClausesOf(texts) ==
  [k \in DOMAIN texts |->
     [Clause("S1_C" \o ToString(k), texts[k], ClauseMetadata("S1", texts[k]))
        EXCEPT !.legal_category = "general", !.risk_level = "low"]]

MergeInit ==
  /\ ParserIdle /\ nlp = FALSE
  /\ risk_model = "none" /\ distilbert = NoDistilbert
  /\ \E texts \in SeqsUpTo(ClauseTextPool, MaxClauses) : fn_in = ClausesOf(texts)
  /\ fn_out = <<>>

\* a call of _merge_related_clauses(fn_in)
MergeCall ==
  /\ pc = "idle"
  /\ fn_out' = _merge_related_clauses(fn_in)
  /\ pc' = "done"
  /\ UNCHANGED <<hash_seed, nlp, risk_model, distilbert, raw_text, sections, sec_i,
                 all_clauses, result, fn_in>>

MergeNext == MergeCall
SpecMerge == MergeInit /\ [][MergeNext]_vars

\* break lists for _create_hierarchical_sections: the headings of a document,
\* as section_breaks finds them, each with or without a 'level' key
MaxBreaks == 3
MaxLevel == 3
HeadingDoc ==
  "ARTICLE 1. Payment\nThe fee is due.\n1. Payment Terms\nA. Late Fees\nDEFINITIONS\nThe end."
HeadingBreaks == section_breaks(HeadingDoc)
\* the first Len(levels) breaks; break n has 'level': levels[n], or no 'level'
\* key where levels[n] = 0
LevelledBreaks(levels) ==
  [n \in DOMAIN levels |->
     IF levels[n] = 0 THEN HeadingBreaks[n]
     ELSE [start |-> HeadingBreaks[n].start, end |-> HeadingBreaks[n].end,
           title |-> HeadingBreaks[n].title,
           pattern_type |-> HeadingBreaks[n].pattern_type, level |-> levels[n]]]

HierarchyInit ==
  /\ pc = "idle" /\ raw_text = HeadingDoc /\ sections = <<>> /\ sec_i = 0
  /\ all_clauses = <<>> /\ result = None
  /\ hash_seed = 0
  /\ nlp = FALSE /\ risk_model = "none" /\ distilbert = NoDistilbert
  /\ \E levels \in SeqsUpTo(0..MaxLevel, Min({MaxBreaks, Len(HeadingBreaks)})) :
        fn_in = LevelledBreaks(levels)
  /\ fn_out = <<>>

\* a call of _create_hierarchical_sections(raw_text, fn_in)
HierarchyCall ==
  /\ pc = "idle"
  /\ sections' = _create_hierarchical_sections(raw_text, fn_in)
  /\ pc' = "done"
  /\ UNCHANGED <<hash_seed, nlp, risk_model, distilbert, raw_text, sec_i, all_clauses,
                 result, fn_in, fn_out>>

HierarchyNext == HierarchyCall
SpecHierarchy == HierarchyInit /\ [][HierarchyNext]_vars

\* candidate texts for _clean_clause_text: a numbering marker or none, a body,
\* an ending
NumberingMarkers == {"", "  1.2.3   ", "(a) ", "1. ", "2.1\t"}
CandidateBodies ==
  {"This is a   clause", "The Company shall pay the fee",
   "Payment is due within\n30 days", "a party may terminate"}
CandidateEndings == {"", ".", "!", "   ", "?\n"}
CleanInit ==
  /\ ParserIdle /\ nlp = FALSE
  /\ risk_model = "none" /\ distilbert = NoDistilbert
  /\ \E marker \in NumberingMarkers, body \in CandidateBodies, ending \in CandidateEndings :
        fn_in = marker \o body \o ending
  /\ fn_out = ""

\* a call of _clean_clause_text(fn_in)
CleanCall ==
  /\ pc = "idle"
  /\ fn_out' = _clean_clause_text(fn_in)
  /\ pc' = "done"
  /\ UNCHANGED <<hash_seed, nlp, risk_model, distilbert, raw_text, sections, sec_i,
                 all_clauses, result, fn_in>>

CleanNext == CleanCall
SpecClean == CleanInit /\ [][CleanNext]_vars

\* parse_structure as a function of its input and of the state of the
\* process: lines 184-209 in one step
ParseOutcomes(secs, outcomes) ==
  IF \E i \in DOMAIN outcomes : outcomes[i].raised THEN Raised
  ELSE ProcessedContract(
         [i \in DOMAIN secs |->
            [secs[i] EXCEPT !.clauses = _classify_clauses(outcomes[i].clauses)]],
         _merge_related_clauses(_classify_clauses(
            FlattenSeqs([i \in DOMAIN secs |-> outcomes[i].clauses]))))
ParseSections(secs, has_nlp, model, dist, seed) ==
  ParseOutcomes(secs, [i \in DOMAIN secs |->
                         _extract_clauses_enhanced(secs[i].text, secs[i].id,
                                                   has_nlp, model, dist, seed)])
parse_structure(text, has_nlp, model, dist, seed) ==
  ParseSections(_extract_sections_enhanced(text), has_nlp, model, dist, seed)

\* parse_structure run twice on one document: the second run in the process
\* of the first, or in a new process with a string hash seed of its own
TwiceDocuments ==
  {"This is a short contract.",
   "The Company shall pay $500 within 30 days.",
   "The Company shall pay 5% within 30 days or 2 months.",
   "ARTICLE 1. Payment\nThe Company shall pay the fee.\nARTICLE 2. Term\nThis contract shall end in May.",
   "The Company shall pay the fee.\n\nPayment is due unless the parties agree otherwise.",
   "1. Payment shall be made within 30 days. 2. Either party may terminate with 30 days notice."}
TwiceInit ==
  /\ pc = "idle"
  /\ nlp \in BOOLEAN
  /\ hash_seed \in HashSeeds
  /\ RiskAssessorInit
  /\ raw_text \in TwiceDocuments
  /\ sections = <<>> /\ sec_i = 0 /\ all_clauses = <<>> /\ result = None
  /\ fn_in = <<>> /\ fn_out = <<>>

\* a run of parse_structure(raw_text, None) in a process whose hash seed is
\* seed; fn_out collects what the runs returned
RunIn(seed) ==
  /\ fn_out' = Append(fn_out, parse_structure(raw_text, nlp, risk_model, distilbert, seed))
  /\ hash_seed' = seed
  /\ pc' = IF pc = "idle" THEN "again" ELSE "done"
  /\ UNCHANGED <<nlp, risk_model, distilbert, raw_text, sections, sec_i, all_clauses,
                 result, fn_in>>

\* the first run, or a second run in the same process
RunInProcess == pc \in {"idle", "again"} /\ RunIn(hash_seed)
\* a second run in a new process
RunInNewProcess == pc = "again" /\ \E seed \in HashSeeds : RunIn(seed)

TwiceNext == RunInProcess \/ RunInNewProcess
SpecTwice == TwiceInit /\ [][TwiceNext]_vars

(***************************************************************************)
(* Layout enhancement: lines 186-189 of parse_structure                   *)
(***************************************************************************)
\* what running the layout model does: it raises, or it gives the layout
\* elements, a dict from element type to texts
Inference(raises, layout_elements) == [raises |-> raises, layout_elements |-> layout_elements]

\* has_processor: hasattr(self, 'processor')
_analyze_with_layoutlm(has_processor, inference) ==
  IF ~has_processor THEN [status |-> "model not loaded"]
  ELSE IF inference.raises THEN [status |-> "error", error |-> "inference failed"]
  ELSE [status |-> "success", layout_elements |-> inference.layout_elements]

\* intersection / union of the word sets > 0.5
_text_similarity_above_half(text1, text2) ==
  LET words1 == Range(TextWords(LowerChars(text1)))
      words2 == Range(TextWords(LowerChars(text2)))
  IN IF words1 = {} \/ words2 = {} THEN FALSE
     ELSE 2 * Cardinality(words1 \cap words2) > Cardinality(words1 \cup words2)

\* the metadata of a section with the keys layout_<type> of the element types
\* that have an element similar to the section text
MetadataWithLayout(metadata, text, layout_elements) ==
  LET IsSimilar(element_text) == _text_similarity_above_half(text, element_text)
      matching_elements(type) == SelectSeq(layout_elements[type], IsSimilar)
      types == {type \in DOMAIN layout_elements : matching_elements(type) # <<>>}
      TypeOf(key) == CHOOSE type \in types : key = "layout_" \o type
  IN [key \in DOMAIN metadata \cup {"layout_" \o type : type \in types} |->
        IF \E type \in types : key = "layout_" \o type
        THEN matching_elements(TypeOf(key)) ELSE metadata[key]]

_merge_layout_analysis(secs, layout_analysis) ==
  IF layout_analysis.status # "success" THEN secs
  ELSE [i \in DOMAIN secs |->
          [secs[i] EXCEPT !.metadata =
             MetadataWithLayout(@, secs[i].text, layout_analysis.layout_elements)]]

EnhanceWithLayout_IgnoreFlag(secs, use_layoutlm, has_image, has_processor, inference) ==
  IF has_image
  THEN _merge_layout_analysis(secs, _analyze_with_layoutlm(has_processor, inference))
  ELSE secs

\* lines 186-189
EnhanceWithLayout(secs, use_layoutlm, has_image, has_processor, inference) ==
  IF use_layoutlm /\ has_image
  THEN _merge_layout_analysis(secs, _analyze_with_layoutlm(has_processor, inference))
  ELSE secs

LayoutDocuments ==
  {"This is a short contract.",
   "ARTICLE 1. Payment\nThe Company shall pay the fee.\nARTICLE 2. Term\nThis contract shall end in May.",
   "The Company shall pay the fee.\n\n1. Payment is due unless the parties agree otherwise."}
Inferences ==
  {Inference(TRUE, <<>>),
   Inference(FALSE, <<>>),
   Inference(FALSE, [title |-> <<"ARTICLE 1. Payment">>,
                     text |-> <<"the company shall pay the fee.", "Signature page">>]),
   Inference(FALSE, [text |-> <<"this is a short contract.">>, other |-> <<"[SEP]">>])}

LayoutInit ==
  /\ ParserIdle /\ nlp = FALSE
  /\ risk_model = "none" /\ distilbert = NoDistilbert
  /\ \E doc \in LayoutDocuments, use_layoutlm, has_image, has_processor \in BOOLEAN,
        inference \in Inferences :
        fn_in = [sections |-> _extract_sections_enhanced(doc), use_layoutlm |-> use_layoutlm,
                 has_image |-> has_image, has_processor |-> has_processor,
                 inference |-> inference]
  /\ fn_out = <<>>

\* the layout step of parse_structure on the sections of fn_in
LayoutCall ==
  /\ pc = "idle"
  /\ fn_out' = EnhanceWithLayout(fn_in.sections, fn_in.use_layoutlm, fn_in.has_image,
                                 fn_in.has_processor, fn_in.inference)
  /\ pc' = "done"
  /\ UNCHANGED <<hash_seed, nlp, risk_model, distilbert, raw_text, sections, sec_i,
                 all_clauses, result, fn_in>>

LayoutNext == LayoutCall
SpecLayout == LayoutInit /\ [][LayoutNext]_vars

(***************************************************************************)
(* ContractPreprocessor (pipeline/preprocessor.py)                         *)
(***************************************************************************)
RECURSIVE SubGroupFrom(_, _, _, _, _, _)
SubGroupFrom(str, ms, k, from, before, after) ==
  IF k > Len(ms) THEN Slice(str, from, Len(str))
  ELSE Slice(str, from, ms[k].start - 1) \o before \o GroupText(str, ms[k], 1) \o after
         \o SubGroupFrom(str, ms, k + 1, ms[k].end, before, after)
\* re.sub(p, repl, str) where repl is group 1 between two fixed strings
SubGroup(p, before, after, str) ==
  SubGroupFrom(str, FindIter(Chars(str), p, 1), 1, 1, before, after)

\* r'["""]'
straight_quotes == Pattern(C({"\""}), NoFlags, 0)
\* r'\b(Inc|Corp|LLC|Ltd)\.?\b'
legal_abbreviation ==
  Pattern(Cat(<<Wb, Grp(1, Alt(<<Lit("Inc"), Lit("Corp"), Lit("LLC"), Lit("Ltd")>>)),
                Opt(Ch(".")), Wb>>), NoFlags, 1)
\* r'\bSection\s+(\d+(?:\.\d+)*)'
section_reference ==
  Pattern(Cat(<<Wb, Lit("Section"), Plus(S),
                Grp(1, Cat(<<Plus(D), Star(Cat(<<Ch("."), Plus(D)>>))>>))>>), NoFlags, 1)
\* r'\bArticle\s+([IVX]+)'
article_reference ==
  Pattern(Cat(<<Wb, Lit("Article"), Plus(S), Grp(1, Plus(C({"I", "V", "X"})))>>), NoFlags, 1)

\* Lines 85-91 replace curly quotes and mis-decoded quote sequences; these are
\* characters outside ASCII, which no string here contains.
_normalize_text(text) ==
  IF text = "" THEN ""
  ELSE SubGroup(article_reference, "Article ", "",
         SubGroup(section_reference, "Section ", "",
           SubGroup(legal_abbreviation, "", ".",
             Sub(straight_quotes, "\"", Sub(spaces, " ", Strip(text))))))

\* _extract_legal_entities, obligation_patterns: the two patterns of the
\* LayoutParser and r'(\w+\s+(?:undertakes?|covenants?)\s+[^.]+)', IGNORECASE
entity_obligation_patterns ==
  obligation_patterns \o
    << Pattern(Grp(1, Cat(<<Plus(C(WordSet)), Plus(S),
                            Alt(<<Plural("undertake"), Plural("covenant")>>),
                            Plus(S), UpToStop>>)), IC, 1) >>

\* entities.get('OBLIGATIONS', []) and entities.get('CONDITIONS', []) of
\* _extract_entities(text): the named-entity labels of spaCy are other keys
EntityObligations(text) == StripEach(FindallEach(entity_obligation_patterns, text))
EntityConditions(text) == StripEach(FindallEach(condition_patterns, text))

\* the category table of _classify_legal_category, in the order of the dict
categories ==
  << <<"payment_terms", <<"payment", "pay", "remuneration", "compensation", "fee", "salary">> >>,
     <<"payment_schedule", <<"installment", "monthly", "quarterly", "due date", "payment schedule">> >>,
     <<"late_payment", <<"late payment", "overdue", "penalty", "interest", "default interest">> >>,
     <<"invoice_billing", <<"invoice", "billing", "statement", "receipt">> >>,
     <<"contract_formation", <<"effective date", "commencement", "execution", "signing">> >>,
     <<"contract_duration", <<"term", "duration", "period", "validity">> >>,
     <<"renewal_extension", <<"renewal", "extension", "auto-renew", "rollover">> >>,
     <<"termination_general", <<"terminate", "termination", "end", "conclude">> >>,
     <<"termination_cause", <<"breach", "default", "violation", "material breach">> >>,
     <<"termination_convenience", <<"convenience", "without cause", "at will">> >>,
     <<"liability_general", <<"liable", "liability", "responsible">> >>,
     <<"liability_limitation", <<"limitation of liability", "cap", "maximum liability">> >>,
     <<"indemnification", <<"indemnify", "indemnification", "hold harmless">> >>,
     <<"insurance", <<"insurance", "coverage", "policy", "insure">> >>,
     <<"damages", <<"damages", "loss", "harm", "injury", "consequential">> >>,
     <<"ip_ownership", <<"ownership", "title", "proprietary", "belong">> >>,
     <<"ip_license", <<"license", "grant", "permit", "authorize">> >>,
     <<"copyright", <<"copyright", "author", "work", "derivative">> >>,
     <<"trademark", <<"trademark", "service mark", "brand", "logo">> >>,
     <<"patent", <<"patent", "invention", "patentable">> >>,
     <<"trade_secrets", <<"trade secret", "confidential information", "know-how">> >>,
     <<"confidentiality_general", <<"confidential", "confidentiality", "non-disclosure">> >>,
     <<"data_protection", <<"data protection", "privacy", "personal data", "gdpr">> >>,
     <<"non_compete", <<"non-compete", "competition", "restraint">> >>,
     <<"non_solicitation", <<"non-solicitation", "solicit", "employee", "customer">> >>,
     <<"performance_standards", <<"performance", "standard", "quality", "specification">> >>,
     <<"delivery_terms", <<"delivery", "shipment", "transport", "logistics">> >>,
     <<"acceptance_testing", <<"acceptance", "testing", "inspection", "approval">> >>,
     <<"service_levels", <<"service level", "sla", "uptime", "availability">> >>,
     <<"dispute_general", <<"dispute", "disagreement", "conflict">> >>,
     <<"arbitration", <<"arbitration", "arbitrator", "arbitral">> >>,
     <<"mediation", <<"mediation", "mediator", "mediate">> >>,
     <<"litigation", <<"litigation", "court", "lawsuit", "legal action">> >>,
     <<"jurisdiction_venue", <<"jurisdiction", "venue", "forum", "competent court">> >>,
     <<"governing_law", <<"governing law", "applicable law", "laws of", "governed by">> >>,
     <<"regulatory_compliance", <<"compliance", "regulation", "regulatory", "statute">> >>,
     <<"force_majeure", <<"force majeure", "act of nature", "unforeseeable">> >>,
     <<"severability", <<"severability", "severable", "invalid", "unenforceable">> >>,
     <<"assignment_general", <<"assign", "assignment", "transfer", "delegate">> >>,
     <<"assignment_restriction", <<"not assign", "no assignment", "consent required">> >>,
     <<"succession", <<"succession", "successor", "heir", "estate">> >>,
     <<"amendment", <<"amend", "amendment", "modify", "modification">> >>,
     <<"waiver", <<"waiver", "waive", "relinquish", "forego">> >>,
     <<"entire_agreement", <<"entire agreement", "complete agreement", "supersede">> >>,
     <<"warranty_general", <<"warranty", "warrant", "guarantee", "assure">> >>,
     <<"warranty_disclaimer", <<"disclaim", "as is", "no warranty">> >>,
     <<"representations", <<"represent", "representation", "state", "affirm">> >> >>

RECURSIVE ScoreFrom(_, _, _)
\* the score of one category: every keyword found adds twice its word count
ScoreFrom(keywords, text_lower, k) ==
  IF k > Len(keywords) THEN 0
  ELSE (IF Contains(text_lower, Chars(keywords[k])) THEN WordCount(keywords[k]) * 2 ELSE 0)
         + ScoreFrom(keywords, text_lower, k + 1)

BestCategory_LastTie(scores) ==
  LET scored == {c \in DOMAIN scores : scores[c] > 0}
      best == CHOOSE c \in scored :
                /\ \A d \in scored : scores[d] <= scores[c]
                /\ \A d \in scored : d > c => scores[d] < scores[c]
  IN IF scored = {} THEN "general"
     ELSE IF scores[best] >= 2 THEN categories[best][1] ELSE "general"

\* max(category_scores.items(), key=...): the first category with the highest
\* score, among those that scored
BestCategory(scores) ==
  LET scored == {c \in DOMAIN scores : scores[c] > 0}
      best == CHOOSE c \in scored :
                /\ \A d \in scored : scores[d] <= scores[c]
                /\ \A d \in scored : d < c => scores[d] < scores[c]
  IN IF scored = {} THEN "general"
     ELSE IF scores[best] >= 2 THEN categories[best][1] ELSE "general"

_classify_legal_category(text) ==
  BestCategory([c \in DOMAIN categories |-> ScoreFrom(categories[c][2], LowerChars(text), 1)])

\* lines 52-68: the new Clause built for clause
ProcessedFrom(clause, normalized_text, model, dist, seed) ==
  [id |-> clause.id, text |-> normalized_text,
   legal_category |-> _classify_legal_category(normalized_text),
   risk_level |-> assess(normalized_text, model, dist),
   key_terms |-> _extract_key_terms(normalized_text, seed),
   obligations |-> EntityObligations(normalized_text),
   conditions |-> EntityConditions(normalized_text),
   metadata |-> clause.metadata]

ProcessedClause_KeepCategory(clause, model, dist, seed) ==
  [ProcessedFrom(clause, _normalize_text(clause.text), model, dist, seed)
     EXCEPT !.legal_category = clause.legal_category]

\* the body of the loop of preprocess_clauses
ProcessedClause(clause, model, dist, seed) ==
  ProcessedFrom(clause, _normalize_text(clause.text), model, dist, seed)

preprocess_clauses(clauses, model, dist, seed) ==
  [n \in DOMAIN clauses |-> ProcessedClause(clauses[n], model, dist, seed)]

\* clause lists as parse_structure returns them: classified clauses after the
\* Clause Merger
PreprocessTexts ==
  {"",
   "The Company shall pay $500 within 30 days.",
   "provided that Acme Inc. pays the   penalty within 5 days.",
   "Section  3.1 of Article IV is not \"void\".",
   "Licensee must indemnify Acme Corp unless the limitation of liability applies."}
\* up to two texts, or a pair that the merger joins followed by a third text
PreprocessLists ==
  SeqsUpTo(PreprocessTexts, 2)
    \cup {<<"The Company shall pay $500 within 30 days.",
            "provided that Acme Inc. pays the   penalty within 5 days.", third>> :
            third \in PreprocessTexts}
PreprocessInit ==
  /\ ParserIdle /\ nlp = FALSE
  /\ RiskAssessorInit
  /\ \E texts \in PreprocessLists :
        fn_in = _merge_related_clauses(ClausesOf(texts))
  /\ fn_out = <<>>

\* a call of preprocess_clauses(fn_in): it returns the list, or the
\* classifier raises inside assess and the exception leaves the call
PreprocessCall ==
  /\ pc = "idle"
  /\ \E processed \in {preprocess_clauses(fn_in, risk_model, distilbert, hash_seed)} :
        IF \E n \in DOMAIN processed : processed[n].risk_level = Raised
        THEN fn_out' = <<>> /\ pc' = "raised"
        ELSE fn_out' = processed /\ pc' = "done"
  /\ UNCHANGED <<hash_seed, nlp, risk_model, distilbert, raw_text, sections, sec_i,
                 all_clauses, result, fn_in>>

PreprocessNext == PreprocessCall
SpecPreprocess == PreprocessInit /\ [][PreprocessNext]_vars

(***************************************************************************)
(* Direct calls of the Section Builder                                     *)
(***************************************************************************)
\* documents made of an optional opening line and up to two blocks: headings
\* of each kind with a line of text, and paragraphs
Preambles == {"", "This Agreement is made today.\n"}
SectionBlocks ==
  {"ARTICLE 1. Payment\nThe Company shall pay the fee.\n",
   "1. Payment Terms\nThe penalty is due.\n",
   "A. Notices\nLetters go by post, if any.\n",
   "RECITALS\nThe parties agree on the price.\n",
   "The Company shall pay the fee.\n\n",
   "WHEREAS the parties agree, the fee is due.\n\n",
   "Hello\n\n"}
SectionDocuments ==
  {preamble \o first \o second :
     preamble \in Preambles, first \in SectionBlocks, second \in SectionBlocks \cup {""}}

SectionsInit ==
  /\ ParserIdle /\ nlp = FALSE
  /\ risk_model = "none" /\ distilbert = NoDistilbert
  /\ fn_in \in SectionDocuments /\ fn_out = <<>>

\* a call of _extract_sections_enhanced(fn_in)
SectionsCall ==
  /\ pc = "idle"
  /\ fn_out' = _extract_sections_enhanced(fn_in)
  /\ pc' = "done"
  /\ UNCHANGED <<hash_seed, nlp, risk_model, distilbert, raw_text, sections, sec_i,
                 all_clauses, result, fn_in>>

SectionsNext == SectionsCall
SpecSections == SectionsInit /\ [][SectionsNext]_vars

(***************************************************************************)
(* Direct calls of the sentence grouping                                   *)
(***************************************************************************)
\* the sentences the sentence model found in a section, each stripped: up to
\* MaxSents sentences, with and without a boundary indicator
MaxSents == 6
SentencePool ==
  {"The fee is due.",
   "(a) Notice is given.",
   "Provided the fee is paid."}

SentencesInit ==
  /\ ParserIdle /\ nlp = TRUE
  /\ risk_model = "none" /\ distilbert = NoDistilbert
  /\ fn_in \in SeqsUpTo(SentencePool, MaxSents) /\ fn_out = <<>>

\* the loop of _extract_by_sentences over the sentences fn_in
SentencesCall ==
  /\ pc = "idle"
  /\ fn_out' = GroupSentences(fn_in, 1, <<>>)
  /\ pc' = "done"
  /\ UNCHANGED <<hash_seed, nlp, risk_model, distilbert, raw_text, sections, sec_i,
                 all_clauses, result, fn_in>>

SentencesNext == SentencesCall
SpecSentences == SentencesInit /\ [][SentencesNext]_vars

(***************************************************************************)
(* Direct calls of the legal-category classification                       *)
(***************************************************************************)
\* clause texts: a fragment, or two fragments; some hold keywords of several
\* categories, some of none
CategoryFragments ==
  {"Late Payment", "the fee", "Terminate", "the cat sat", "limitation of liability",
   "Governing Law", "due date", "at will"}
CategoryTexts == CategoryFragments \cup {a \o " " \o b : a, b \in CategoryFragments}

CategoryInit ==
  /\ ParserIdle /\ nlp = FALSE
  /\ risk_model = "none" /\ distilbert = NoDistilbert
  /\ fn_in \in CategoryTexts /\ fn_out = ""

\* a call of _classify_legal_category(fn_in)
CategoryCall ==
  /\ pc = "idle"
  /\ fn_out' = _classify_legal_category(fn_in)
  /\ pc' = "done"
  /\ UNCHANGED <<hash_seed, nlp, risk_model, distilbert, raw_text, sections, sec_i,
                 all_clauses, result, fn_in>>

CategoryNext == CategoryCall
SpecCategory == CategoryInit /\ [][CategoryNext]_vars

(***************************************************************************)
(* Two invocations of parse_structure on one parser instance               *)
(***************************************************************************)
\* the two threads that call parse_structure on the shared instance; each
\* has its own raw_text, sections, section cursor, all_clauses and result,
\* held here per invocation; nlp, the risk assessor and the hash seed belong
\* to the instance and the process; fn_out records what parse_structure
\* returns for each of the two documents when it is the only invocation
Invocations == {1, 2}
ConcurrentDocuments ==
  {"Hello",
   "ARTICLE 1. Payment\nThe Company shall pay the fee.\nARTICLE 2. Term\nThis contract shall end in May.",
   "The Company shall pay the fee.\n\nPayment is due unless the parties agree otherwise."}

\* all_clauses.extend(clauses) on a list bound to the instance instead of
\* the local of line 192: every running invocation sees the extension
ExtendLocal_OnInstance(lists, t, clauses) == [u \in DOMAIN lists |-> lists[u] \o clauses]

\* line 199: all_clauses is the local list of line 192 of invocation t
ExtendLocal(lists, t, clauses) == [lists EXCEPT ![t] = @ \o clauses]

\* both threads run in one process, whose string hash seed is taken as 0;
\* a loaded risk model either raises or is confident of a negative label
ConcurrentInit ==
  /\ pc = [t \in Invocations |-> "start"]
  /\ nlp \in BOOLEAN
  /\ hash_seed = 0
  /\ RiskAssessorInit
  /\ distilbert.negative_confidence \in {0, Max(Confidences)}
  /\ raw_text \in [Invocations -> ConcurrentDocuments]
  /\ sections = [t \in Invocations |-> <<>>]
  /\ sec_i = [t \in Invocations |-> 0]
  /\ all_clauses = [t \in Invocations |-> <<>>]
  /\ result = [t \in Invocations |-> None]
  /\ fn_in = <<>>
  /\ fn_out = [t \in Invocations |->
                 parse_structure(raw_text[t], nlp, risk_model, distilbert, hash_seed)]

\* line 184, in invocation t
ExtractSectionsIn(t) ==
  /\ pc[t] = "start"
  /\ sections' = [sections EXCEPT ![t] = _extract_sections_enhanced(raw_text[t])]
  /\ sec_i' = [sec_i EXCEPT ![t] = 1]
  /\ pc' = [pc EXCEPT ![t] = "clauses"]
  /\ UNCHANGED <<all_clauses, result>>

\* one turn of the loop of lines 193-199, in invocation t
ExtractClausesIn(t) ==
  /\ pc[t] = "clauses" /\ sec_i[t] <= Len(sections[t])
  /\ \E extracted \in {_extract_clauses_enhanced(sections[t][sec_i[t]].text,
                                                  sections[t][sec_i[t]].id,
                                                  nlp, risk_model, distilbert, hash_seed)} :
        \/ /\ ~extracted.raised
           /\ sections' = [sections EXCEPT ![t][sec_i[t]].clauses = extracted.clauses]
           /\ all_clauses' = ExtendLocal(all_clauses, t, extracted.clauses)
           /\ sec_i' = [sec_i EXCEPT ![t] = @ + 1]
           /\ UNCHANGED <<pc, result>>
        \/ /\ extracted.raised
           /\ pc' = [pc EXCEPT ![t] = "raised"]
           /\ result' = [result EXCEPT ![t] = Raised]
           /\ UNCHANGED <<sections, all_clauses, sec_i>>

\* line 202, in invocation t
ClassifyClausesIn(t) ==
  /\ pc[t] = "clauses" /\ sec_i[t] > Len(sections[t])
  /\ all_clauses' = [all_clauses EXCEPT ![t] = _classify_clauses(@)]
  /\ sections' = [sections EXCEPT ![t] =
                    [k \in DOMAIN @ |-> [@[k] EXCEPT !.clauses = _classify_clauses(@)]]]
  /\ pc' = [pc EXCEPT ![t] = "merge"]
  /\ UNCHANGED <<sec_i, result>>

\* line 203, in invocation t
MergeRelatedClausesIn(t) ==
  /\ pc[t] = "merge"
  /\ all_clauses' = [all_clauses EXCEPT ![t] = _merge_related_clauses(@)]
  /\ pc' = [pc EXCEPT ![t] = "return"]
  /\ UNCHANGED <<sections, sec_i, result>>

\* lines 205-209, in invocation t
ReturnIn(t) ==
  /\ pc[t] = "return"
  /\ result' = [result EXCEPT ![t] = ProcessedContract(sections[t], all_clauses[t])]
  /\ pc' = [pc EXCEPT ![t] = "done"]
  /\ UNCHANGED <<sections, sec_i, all_clauses>>

\* the scheduler lets either thread take its next step; no step writes an
\* attribute of the instance
ConcurrentNext ==
  /\ \E t \in Invocations :
        \/ ExtractSectionsIn(t)
        \/ ExtractClausesIn(t)
        \/ ClassifyClausesIn(t)
        \/ MergeRelatedClausesIn(t)
        \/ ReturnIn(t)
  /\ UNCHANGED <<hash_seed, nlp, risk_model, distilbert, raw_text, fn_in, fn_out>>
SpecConcurrent == ConcurrentInit /\ [][ConcurrentNext]_vars

(***************************************************************************)
(* Properties of the Risk Classifier                                       *)
(***************************************************************************)
RiskLevels == {"low", "medium", "high"}
HasAny(text, words) == \E w \in words : Contains(LowerChars(text), Chars(w))

\* C8: when the classifier model is unavailable, assess returns "high" if the
\* lowercased text contains a high-risk keyword (unlimited liability, personal
\* guarantee, penalty, liquidated damages), otherwise "medium" if it contains a
\* medium-risk keyword (indemnification, limitation of liability, attorney
\* fees), otherwise "low"; "critical" is never returned.
C8_KeywordFallback ==
  (pc = "done" /\ risk_model = "none") =>
     /\ fn_out = IF HasAny(fn_in, {"unlimited liability", "personal guarantee",
                                   "penalty", "liquidated damages"}) THEN "high"
                 ELSE IF HasAny(fn_in, {"indemnification", "limitation of liability",
                                        "attorney fees"}) THEN "medium"
                 ELSE "low"
     /\ fn_out # "critical"

\* a text with a capitalised high-risk keyword and a medium-risk keyword was
\* assessed on the keyword path, and high took precedence
C8_Witness ==
  /\ pc = "done" /\ risk_model = "none"
  /\ fn_in = "indemnification Penalty"
  /\ fn_out = "high"

\* C9: any failure of the classifier's primary model, at load time or while
\* scoring, makes assess return a risk level; the failure never leaves assess.
C9_AssessAlwaysReturnsLevel ==
  pc = "done" => fn_out \in RiskLevels

(***************************************************************************)
(* Properties of deduplication                                             *)
(***************************************************************************)
Occurrences(seq, x) == Cardinality({k \in DOMAIN seq : seq[k] = x})
IsSubstantial(clause) == Len(CleanForm(clause)) >= 20
SameCharSet(a, b) == Range(CleanForm(a)) = Range(CleanForm(b))

\* C2: of two candidates where one is identical to, or a substring of, the
\* other and whose character sets coincide, only the longer is retained; a
\* string given twice is in the output once.
C2_OnlyLongerRetained ==
  pc = "done" =>
    \A i, j \in DOMAIN fn_in :
       ( /\ i # j
         /\ IsSubstantial(fn_in[i]) /\ IsSubstantial(fn_in[j])
         /\ Contains(Chars(fn_in[j]), Chars(fn_in[i]))
         /\ SameCharSet(fn_in[i], fn_in[j]) )
       => Occurrences(fn_out, fn_in[i]) <= (IF fn_in[i] = fn_in[j] THEN 1 ELSE 0)

\* a percent of b, compared without division
ExceedsPercent(num, den, percent) == 100 * num > percent * den
Shorter60(a, b) == 10 * Len(a) < 6 * Len(b)
Comparable(a, b) == ~Shorter60(a, b) /\ ~Shorter60(b, a)
CharSimilarityOver95(a, b) ==
  ExceedsPercent(Cardinality(Range(a) \cap Range(b)),
                 IF Len(a) >= Len(b) THEN Len(a) ELSE Len(b), 95)

RECURSIVE PickFrom(_, _, _)
\* the elements of seq at the positions in K, from position i on, in order
PickFrom(seq, K, i) ==
  IF i > Len(seq) THEN <<>>
  ELSE (IF i \in K THEN <<seq[i]>> ELSE <<>>) \o PickFrom(seq, K, i + 1)

BeginsWith(text, prefix) == StartsWith(LowerChars(text), Chars(prefix))
\* the output clause that keeps the identifier of input clause i and holds the
\* texts of clauses i and i + 1
IsMergeOf(out, clauses, i) ==
  /\ out.id = clauses[i].id
  /\ out.metadata.merged
  /\ out.metadata.merged_with = clauses[i + 1].id
  /\ out.text = clauses[i].text \o " " \o clauses[i + 1].text
MergedIntoPredecessor(i) ==
  /\ \E k \in DOMAIN fn_out : IsMergeOf(fn_out[k], fn_in, i - 1)
  /\ \A k \in DOMAIN fn_out : fn_out[k].id # fn_in[i].id

\* C3 as stated: every clause that begins with "provided that" and has a
\* predecessor is merged into the immediately preceding clause, and the merged
\* clause keeps the predecessor's identifier.
C3_AlwaysMerged ==
  pc = "done" =>
    \A i \in DOMAIN fn_in :
       (i > 1 /\ BeginsWith(fn_in[i].text, "provided that")) => MergedIntoPredecessor(i)

\* clause i - 1 of the input was itself merged into clause i - 2
Consumed(i) == \E k \in DOMAIN fn_out : fn_out[k].metadata.merged_with = fn_in[i].id
BeginsWithPhrase(text, phrase) ==
  /\ BeginsWith(text, phrase)
  /\ Len(text) > Len(phrase) => Chars(text)[Len(phrase) + 1] \notin WordSet

\* C3 amended: a clause of at most 500 characters that begins with the words
\* "provided that" and follows a clause of at most 500 characters that was not
\* itself merged into its own predecessor is merged into the immediately
\* preceding clause; every merged clause joins two adjacent clauses and keeps
\* the identifier of the first.
C3_MergeLocality ==
  pc = "done" =>
    /\ \A i \in DOMAIN fn_in :
          ( /\ i > 1
            /\ BeginsWithPhrase(fn_in[i].text, "provided that")
            /\ Len(fn_in[i].text) <= 500 /\ Len(fn_in[i - 1].text) <= 500
            /\ ~Consumed(i - 1) )
          => MergedIntoPredecessor(i)
    /\ \A k \in DOMAIN fn_out :
          fn_out[k].metadata.merged =>
             \E i \in DOMAIN fn_in : i < Len(fn_in) /\ IsMergeOf(fn_out[k], fn_in, i)

\* two "provided that" clauses in a row: the first is merged into its
\* predecessor, the second stays
C3_Witness ==
  /\ pc = "done"
  /\ Len(fn_in) = 3 /\ Len(fn_out) = 2
  /\ BeginsWithPhrase(fn_in[2].text, "provided that")
  /\ BeginsWithPhrase(fn_in[3].text, "provided that")
  /\ IsMergeOf(fn_out[1], fn_in, 1)
  /\ fn_out[2] = fn_in[3]

(***************************************************************************)
(* Properties of parse_structure                                           *)
(***************************************************************************)
\* C1: every clause of the returned clause list, merged ones included, has a
\* legal category and a risk level, and the risk level is low, medium or high.
C1_ClausesClassified ==
  pc = "done" =>
    \A k \in DOMAIN result.clauses :
       /\ result.clauses[k].legal_category # None
       /\ result.clauses[k].risk_level \in RiskLevels

\* C4: for a non-empty text, parse_structure returns at least one section and
\* at least one clause.
C4_Coverage ==
  (pc = "done" /\ raw_text # "") =>
     Len(result.sections) >= 1 /\ Len(result.clauses) >= 1

\* identifier, text and classification of a clause
Essentials(clause) ==
  <<clause.id, clause.text, clause.legal_category, clause.risk_level>>
EssentialsOf(clauses) == [k \in DOMAIN clauses |-> Essentials(clauses[k])]

\* C5: the returned clause list equals the sections' clause lists, one after
\* the other: the same identifiers, texts and classification.
C5_FlatListIsHierarchy ==
  pc = "done" =>
    EssentialsOf(result.clauses)
      = FlattenSeqs([k \in DOMAIN result.sections |-> EssentialsOf(result.sections[k].clauses)])

\* C6: the one-sentence document "This is a short contract." gives one section
\* and one clause of category "general", with or without the sentence model.
C6_ShortContract ==
  (pc = "done" /\ raw_text = "This is a short contract.") =>
     /\ Len(result.sections) = 1
     /\ Len(result.clauses) = 1
     /\ result.clauses[1].legal_category = "general"

\* the section a section names as its parent
HasParentAt(secs, i, j) == secs[j].id = secs[i].metadata.parent_section

\* C7: the parent of a section of level above 1, if it has one, is an earlier
\* section of strictly lower level; a section names at most one parent and the
\* identifiers are distinct, so the parent relation has no cycle.
C7_HierarchySound ==
  /\ \A i \in DOMAIN sections :
        sections[i].metadata.parent_section # None =>
           /\ sections[i].level > 1
           /\ \E j \in 1..(i - 1) : /\ HasParentAt(sections, i, j)
                                    /\ sections[j].level < sections[i].level
  /\ \A i, j \in DOMAIN sections : sections[i].id = sections[j].id => i = j

\* a level-3 section took the level-1 section two places before it as its
\* parent, passing over a section of its own level
C7_Witness ==
  /\ pc = "done"
  /\ Len(sections) = 3
  /\ sections[1].level = 1 /\ sections[2].level = 3 /\ sections[3].level = 3
  /\ HasParentAt(sections, 3, 1)
  /\ HasParentAt(sections, 2, 1)

(***************************************************************************)
(* Properties of the section scores                                        *)
(***************************************************************************)
IsUnitScore(score) ==
  /\ score # NoScore
  /\ score[2] > 0 /\ 0 <= score[1] /\ score[1] <= score[2]

\* C11: every section the Section Builder returns, from headings, from the
\* paragraph fallback or as the whole-document section, has an importance
\* score that is set and lies between 0 and 1.
C11_ImportanceInUnitRange ==
  \A i \in DOMAIN sections : IsUnitScore(sections[i].importance_score)

(***************************************************************************)
(* Properties of the Clause Extractor                                      *)
(***************************************************************************)
NoRepeats(seq) == \A i, j \in DOMAIN seq : seq[i] = seq[j] => i = j

\* C12: in every clause the Clause Extractor makes, the key-terms list, the
\* obligations list and the conditions list each hold no string twice.
C12_ListsDeduplicated ==
  \A k \in DOMAIN all_clauses :
     /\ NoRepeats(all_clauses[k].key_terms)
     /\ NoRepeats(all_clauses[k].obligations)
     /\ NoRepeats(all_clauses[k].conditions)

\* a word such as "1.2.3", "1." or "(a)"
IsNumberingMarker(word) ==
  LET cs == Chars(word)
  IN \/ Range(cs) \subseteq DigitSet \cup {"."} /\ Range(cs) \cap DigitSet # {}
     \/ Len(cs) = 3 /\ cs[1] = "(" /\ cs[2] \in LowerSet \cup DigitSet /\ cs[3] = ")"

\* the words of text without a leading numbering marker, one space between
\* them, closed by "." unless the last word ends in ".", "!" or "?"
CleanedAsClaimed(text) ==
  LET words == TextWords(text)
      kept == IF words # <<>> /\ IsNumberingMarker(words[1]) THEN Tail(words) ELSE words
      joined == JoinWith(kept, " ")
  IN IF joined = "" \/ SubSeq(joined, Len(joined), Len(joined)) \in {".", "!", "?"}
     THEN joined ELSE joined \o "."

\* C13: cleaning collapses whitespace, removes only a leading numbering marker
\* and closes the text with "." where it has no final ".", "!" or "?"; every
\* other word is kept in order, and the clause text is not empty.
C13_CleaningKeepsWords ==
  pc = "done" => (fn_out = CleanedAsClaimed(fn_in) /\ fn_out # "")

ClauseIds(clauses) == [k \in DOMAIN clauses |-> clauses[k].id]

\* C14: the clauses of a section are numbered {sectionId}_C1, {sectionId}_C2,
\* ... with no gap, whatever candidates were discarded, and no clause
\* identifier occurs twice in the document, before or after merging.
C14_ClauseIdsConsecutive ==
  /\ \A i \in DOMAIN sections : \A k \in DOMAIN sections[i].clauses :
        sections[i].clauses[k].id = sections[i].id \o "_C" \o ToString(k)
  /\ NoRepeats(ClauseIds(all_clauses))
  /\ pc = "done" => NoRepeats(ClauseIds(result.clauses))

\* the numbered line "1. the cat sat on the mat today." was a candidate and was
\* discarded as no valid clause; the two clauses kept are numbered 1 and 2
C14_Witness ==
  /\ pc = "done"
  /\ raw_text = "1. the cat sat on the mat today.\n2. the Company shall pay the fee."
  /\ ClauseIds(result.sections[1].clauses) = <<"S1_C1", "S1_C2">>
  /\ result.sections[1].clauses[1].text = "the Company shall pay the fee."
  /\ ClauseIds(result.clauses) = <<"S1_C1", "S1_C2">>

\* C15: the empty document gives exactly one section; its text is the whole,
\* empty, text and its section type is "general".
C15_EmptyDocument ==
  (raw_text = "" /\ pc # "start") =>
     /\ Len(sections) = 1
     /\ sections[1].text = ""
     /\ sections[1].section_type = "general"

\* C16: two runs of the Section Builder and Clause Extractor on the same
\* input, in one process or in two, return the same sections and clauses,
\* with the same lists of key terms, obligations and conditions in the same
\* order.
C16_Deterministic ==
  pc = "done" => fn_out[1] = fn_out[2]

(***************************************************************************)
(* Properties of the layout enhancement                                    *)
(***************************************************************************)
NonSuccess == {[status |-> "model not loaded"], [status |-> "error", error |-> "inference failed"]}

\* C17: when the layout analysis ends with a status other than success (no
\* model loaded, or an error during inference) the sections come back as they
\* were, with no metadata added; when no document image is given or the
\* layout model is disabled the step changes nothing.
C17_LayoutFailureKeepsSections ==
  pc = "done" =>
    /\ (~fn_in.has_processor \/ fn_in.inference.raises) => fn_out = fn_in.sections
    /\ (~fn_in.use_layoutlm \/ ~fn_in.has_image) => fn_out = fn_in.sections
    /\ \A layout_analysis \in NonSuccess :
          _merge_layout_analysis(fn_in.sections, layout_analysis) = fn_in.sections

\* the layout model was enabled, an image was given and inference raised on
\* a document for which a successful analysis would have added metadata
C17_Witness ==
  /\ pc = "done"
  /\ fn_in.use_layoutlm /\ fn_in.has_image /\ fn_in.has_processor
  /\ fn_in.inference.raises
  /\ Len(fn_in.sections) = 2
  /\ fn_out = fn_in.sections
  /\ \E inference \in Inferences :
        EnhanceWithLayout(fn_in.sections, TRUE, TRUE, TRUE, inference) # fn_in.sections

(***************************************************************************)
(* Properties of the ContractPreprocessor                                  *)
(***************************************************************************)
\* C18: preprocess_clauses returns one clause per input clause, in the same
\* order and with the same identifier, and every returned clause has a
\* non-empty legal category and a risk level, also where the input clause had
\* neither (a clause made by the Clause Merger).
C18_OneClausePerInput ==
  pc = "done" =>
    /\ Len(fn_out) = Len(fn_in)
    /\ \A n \in DOMAIN fn_in :
          /\ fn_out[n].id = fn_in[n].id
          /\ fn_out[n].legal_category \notin {None, ""}
          /\ fn_out[n].risk_level \in RiskLevels

\* two clauses were preprocessed, the first one made by the Clause Merger and
\* so without category and risk level
C18_Witness ==
  /\ pc = "done"
  /\ Len(fn_in) = 2 /\ fn_in[1].id # fn_in[2].id
  /\ fn_in[1].metadata.merged
  /\ fn_in[1].legal_category = None /\ fn_in[1].risk_level = None
  /\ fn_out[1].legal_category # "general"

(***************************************************************************)
(* Further properties of the Clause Merger                                 *)
(***************************************************************************)
ContinuationMarkers ==
  {"provided that", "however", "notwithstanding", "subject to", "unless", "except"}
BeginsWithMarker(text) == \E marker \in ContinuationMarkers : BeginsWith(text, marker)

\* C19: clause i+1 is merged into clause i only if the text of clause i+1
\* begins with a continuation marker and neither text is longer than 500
\* characters; a marker in the middle or at the end of the text of clause i+1
\* does not lead to a merge.
C19_MergeOnlyOnLeadingMarker ==
  pc = "done" =>
    \A i \in DOMAIN fn_in :
       (i > 1 /\ MergedIntoPredecessor(i)) =>
          /\ BeginsWithMarker(fn_in[i].text)
          /\ Len(fn_in[i].text) <= 500 /\ Len(fn_in[i - 1].text) <= 500

\* the metadata of the first clause, with merged and merged_with set
CarriesMetadata(out, first) ==
  \A key \in DOMAIN first.metadata \ {"merged", "merged_with"} :
     key \in DOMAIN out.metadata /\ out.metadata[key] = first.metadata[key]

\* C20: the merger is one forward pass that conserves the clauses. The merges
\* are pairs of adjacent input clauses that do not overlap; each pair gives one
\* output clause with the texts of the two, the identifier and the metadata of
\* the first and merged = true; every other input clause is in the output
\* unchanged; the order is kept and the output is shorter than the input by
\* the number of merges.
C20_MergerConserves ==
  pc = "done" =>
    \E Merges \in SUBSET (1..(Len(fn_in) - 1)) :
       LET Firsts == {i \in DOMAIN fn_in : (i - 1) \notin Merges}
           first == PickFrom([i \in DOMAIN fn_in |-> i], Firsts, 1)
       IN /\ \A i \in Merges : (i + 1) \notin Merges
          /\ Len(fn_out) = Len(fn_in) - Cardinality(Merges)
          /\ Len(first) = Len(fn_out)
          /\ \A k \in DOMAIN fn_out :
                IF first[k] \in Merges
                THEN /\ IsMergeOf(fn_out[k], fn_in, first[k])
                     /\ CarriesMetadata(fn_out[k], fn_in[first[k]])
                ELSE fn_out[k] = fn_in[first[k]]

\* three clauses: the first passes through unchanged, the third is merged
\* into the second
C20_Witness ==
  /\ pc = "done"
  /\ Len(fn_in) = 3 /\ Len(fn_out) = 2
  /\ fn_out[1] = fn_in[1]
  /\ IsMergeOf(fn_out[2], fn_in, 2)
  /\ CarriesMetadata(fn_out[2], fn_in[2])

(***************************************************************************)
(* Properties of the Section Builder                                       *)
(***************************************************************************)
\* headings were detected in the document
OnHeadingPath(text) == section_breaks(text) # <<>>
\* the nearest earlier section of a lower level, None where there is none
NearestLower(secs, i) ==
  LET lower == {j \in 1..(i - 1) : secs[j].level < secs[i].level}
  IN IF lower = {} THEN None ELSE secs[Max(lower)].id

\* C21: on the heading path the level of a section follows from the kind of
\* its heading (article/section 1, numbered 2, lettered 3, all capitals 1,
\* otherwise 4), and its parent is the nearest earlier section of a strictly
\* lower level, or none.
C21_LevelFromHeadingKind ==
  (pc = "done" /\ OnHeadingPath(fn_in)) =>
     \A i \in DOMAIN fn_out :
        /\ fn_out[i].level = _determine_heading_level(fn_out[i].title)
        /\ fn_out[i].metadata.hierarchy_level = fn_out[i].level
        /\ fn_out[i].metadata.parent_section = NearestLower(fn_out, i)

\* the text between the end of heading i and the start of the next heading,
\* or the end of the document
SpanAfterHeading(text, breaks, i) ==
  Slice(text, breaks[i].end,
        (IF i < Len(breaks) THEN breaks[i + 1].start ELSE Len(text) + 1) - 1)

\* C22: on the heading path the headings are ordered by their start, sections
\* S1..Sn follow that order, and the text of section i is the span from the
\* end of heading i to the start of heading i+1 or the end of the document:
\* the heading line itself is no part of it.
C22_SpanAfterHeading ==
  (pc = "done" /\ OnHeadingPath(fn_in)) =>
     \E breaks \in {section_breaks(fn_in)} :
        /\ Len(fn_out) = Len(breaks)
        /\ \A i \in DOMAIN breaks :
              /\ i < Len(breaks) => breaks[i].start <= breaks[i + 1].start
              /\ fn_out[i].id = "S" \o ToString(i)
              /\ fn_out[i].title = breaks[i].title
              /\ Strip(fn_out[i].text) = Strip(SpanAfterHeading(fn_in, breaks, i))

\* the names of the ten groups
GroupNames == {semantic_groups[g][1] : g \in DOMAIN semantic_groups}
\* the group with the highest score for a section, "miscellaneous" when no
\* group scores
ExpectedGroup(section) ==
  GroupOf(LowerChars(section.title),
          LowerChars(Slice(section.text, 1, Min({200, Len(section.text)}))))[1]

\* C23: every section of the Section Builder, from headings or from the
\* paragraph fallback, has in its metadata a semantic group that is one of the
\* ten groups: the one with the highest score (3 for a keyword in the title, 1
\* for a keyword in the first 200 characters of the text), "miscellaneous" when
\* no group scores above zero.
C23_SemanticGroupAssigned ==
  pc = "done" =>
     \A i \in DOMAIN fn_out :
        /\ fn_out[i].metadata.semantic_group \in GroupNames
        /\ fn_out[i].metadata.semantic_group = ExpectedGroup(fn_out[i])

\* the paragraphs of a text: the pieces between blank lines, stripped, that
\* are not empty
ParagraphsOf(text) ==
  LET IsNonEmpty(str) == str # ""
  IN SelectSeq(StripEach(Split(text, blank_line)), IsNonEmpty)

\* C24: without headings, the paragraphs are scanned in order; a section-start
\* paragraph closes the current section and starts a new one, every other
\* paragraph is appended to the current section.  So every paragraph of the
\* input is in exactly one section, in the original order; the sections are
\* numbered S1..Sn; and every section but possibly the first begins with a
\* section-start paragraph.
C24_FallbackKeepsParagraphs ==
  (pc = "done" /\ ~OnHeadingPath(fn_in)) =>
     /\ \A i \in DOMAIN fn_out : fn_out[i].id = "S" \o ToString(i)
     /\ FlattenSeqs([i \in DOMAIN fn_out |-> ParagraphsOf(fn_out[i].text)]) = ParagraphsOf(fn_in)
     /\ \A i \in DOMAIN fn_out : i > 1 => _is_section_start(ParagraphsOf(fn_out[i].text)[1])

(***************************************************************************)
(* Properties of the sentence grouping                                     *)
(***************************************************************************)
\* the sentence starts with a boundary indicator
StartsWithIndicator(sentence) ==
  \E k \in DOMAIN boundary_indicators : Matches(boundary_indicators[k], sentence)
\* the positions at which the groups start, in order, for a set of starts
StartsInOrder(Starts, n) == PickFrom([k \in 1..n |-> k], Starts, 1)
\* sentence k is the first of the group that ends at position last
GroupAt(starts, g, n) ==
  [first |-> starts[g], last |-> IF g < Len(starts) THEN starts[g + 1] - 1 ELSE n]

C26_SectionHasClause ==
  pc = "done" =>
    \A i \in DOMAIN result.sections :
       result.sections[i].text # "" => result.sections[i].clauses # <<>>

(***************************************************************************)
(* Properties of the legal-category classification                         *)
(***************************************************************************)
\* the keywords of category c that occur in the lowercased text
KeywordsIn(c, text) ==
  {k \in DOMAIN categories[c][2] : Contains(LowerChars(text), Chars(categories[c][2][k]))}
\* twice the number of words of the keywords of category c that occur
CategoryScore(c, text) ==
  2 * Cardinality({<<k, w>> \in KeywordsIn(c, text) \X (1..3) :
                     w <= WordCount(categories[c][2][k])})
\* category c has the highest score, and no category listed before it has it
IsFirstBest(c, text) ==
  /\ CategoryScore(c, text) > 0
  /\ \A d \in DOMAIN categories :
        /\ CategoryScore(d, text) <= CategoryScore(c, text)
        /\ d < c => CategoryScore(d, text) < CategoryScore(c, text)

\* C27: _classify_legal_category returns the category with the highest score,
\* where every keyword of a category that occurs in the lowercased text adds
\* twice its number of words; it returns "general" exactly when no keyword of
\* any category occurs; of several categories with the highest score it
\* returns the one listed first.
C27_CategoryByScore ==
  pc = "done" =>
    /\ fn_out = "general" <=> \A c \in DOMAIN categories : KeywordsIn(c, fn_in) = {}
    /\ fn_out # "general" =>
         \E c \in DOMAIN categories : fn_out = categories[c][1] /\ IsFirstBest(c, fn_in)

\* two categories share the highest score and the one listed first is returned
C27_Witness ==
  /\ pc = "done"
  /\ \E c, d \in DOMAIN categories :
        /\ c < d
        /\ IsFirstBest(c, fn_in)
        /\ CategoryScore(d, fn_in) = CategoryScore(c, fn_in)
        /\ fn_out = categories[c][1]

SectionClauseIds(i) == Range(ClauseIds(result.sections[i].clauses))

\* C29: the merger joins only clauses of one section: a merged clause of the
\* flat list and the clause it was merged with are clauses of the same
\* section, so no clause of the flat list holds text of two sections.
C29_MergeWithinSection ==
  pc = "done" =>
    \A k \in DOMAIN result.clauses :
      result.clauses[k].metadata.merged =>
        \E i \in DOMAIN result.sections :
          {result.clauses[k].id, result.clauses[k].metadata.merged_with} \subseteq SectionClauseIds(i)


\* the words of the text of section i of secs
SectionWords(secs, i) == Range(TextWords(secs[i].text))

\* C30: when headings are detected the sections cover the document: every
\* word of the input text, the words before the first heading included, is
\* a word of the text of some section.
C30_SectionsCoverDocument ==
  (pc = "done" /\ OnHeadingPath(fn_in)) =>
    \A w \in Range(TextWords(fn_in)) : \E i \in DOMAIN fn_out : w \in SectionWords(fn_out, i)


====
